---- MODULE Spec2Model ----
(***************************************************************************)
(* The editor store of the openleaf client (useEditorStore) and the save   *)
(* and load protocols that drive it (Editor.handleSave,                    *)
(* MainLayout.handleSave, the Editor load effect), together with the       *)
(* remote file store they talk to; and the project store                   *)
(* (useProjectStore): the open files and the active file of the current    *)
(* project, persisted per project in localStorage; the keyboard shortcut   *)
(* registry (registerShortcut, useKeyboardShortcuts); and the comments     *)
(* store (useCommentsStore) with the Editor's comment highlights.          *)
(***************************************************************************)
EXTENDS Naturals, FiniteSets, Sequences, Bags, TLC

(* ------------------------------ bounds --------------------------------- *)

\* Longest text (in characters) a file content takes in the model.
MaxLen == 2

\* Most save requests outstanding at once.
MaxSaves == 1

\* Most registerShortcut calls made.
MaxRegs == 2

\* Most lines of the document in the editing widget.
MaxLines == 2

(* ------------------------------ values --------------------------------- *)

\* The file paths of the project; every one has a file id in the listing.
Paths == {"main.tex", "refs.bib"}

RECURSIVE Text(_)
Text(n) == IF n = 0 THEN "" ELSE "a" \o Text(n - 1)

\* The texts a file can hold: "", "a", ...
Contents == {Text(n) : n \in 0..MaxLen}

EmptyText == ""

\* JavaScript's undefined, as returned by an optional chain on a missing key.
undefined == "undefined"

VARIABLES
    fileContents,     \* useEditorStore.fileContents: Record<path, FileContent>
    isSaving,         \* useEditorStore.isSaving
    saves,            \* the updateContent calls a handleSave is awaiting: a bag of
                      \* [path, content], the arguments each was made with
    last,             \* history: the step taken last
    synced            \* history: per path, the contents the remote store returned
                      \* from a load of it or acknowledged in a save of it

vars == <<fileContents, isSaving, saves, last, synced>>

VARIABLES
    currentProject,   \* useProjectStore.currentProject: its id, or null
    files,            \* currentProject.files: the paths of the listing
    openFiles,        \* useProjectStore.openFiles
    activeFile,       \* useProjectStore.activeFile: a path, or null
    storage,          \* localStorage: project id -> the text stored under its key
    thrown,           \* the store operation called last raised an error
    lastS,            \* history: the store operation called last
    persisted         \* history: project id -> the record last passed to saveState

svars == <<currentProject, files, openFiles, activeFile, storage, thrown, lastS,
           persisted>>

VARIABLES
    shortcuts,        \* the module's shortcuts array: [config, reg], config the
                      \* ShortcutConfig object pushed and reg (history) the number
                      \* of the registerShortcut call that pushed it
    issued,           \* the functions registerShortcut has returned: [config, reg]
    regs,             \* history: the number of registerShortcut calls made
    mounted,          \* the components that called useKeyboardShortcuts and are
                      \* mounted, in the order their keydown listeners were added
    lastK             \* history: the step taken last

kvars == <<shortcuts, issued, regs, mounted, lastK>>

VARIABLES
    doc,              \* view.state.doc of the Editor: the length of each line
    comments,         \* useCommentsStore.comments
    highlights,       \* highlightField: the marks, [id, from, to]
    effectError,      \* the highlight effect run last raised an error
    pendingSelection, \* useCommentsStore.pendingSelection
    isAddingComment,  \* useCommentsStore.isAddingComment
    creating,         \* the commentsApi.create calls awaited: [lineStart, lineEnd]
    lastA,            \* history: the step taken last
    orphaned,         \* history: ids, the comments whose lines the first edit
                      \* after they were fetched deleted, and edited, whether
                      \* there has been an edit since
    selLines          \* history: the number of lines the document had when
                      \* pendingSelection was set

avars == <<doc, comments, highlights, effectError, pendingSelection,
           isAddingComment, creating, lastA, orphaned, selLines>>

VARIABLES
    routeProjectId,   \* MainLayout: the projectId of the route (useParams)
    fileContentData,  \* the query cache: file path -> the content the content
                      \* query of the file returned last, or undefined
    pdfUrl,           \* useEditorStore.pdfUrl: a location or null
    pdfStorage,       \* localStorage: project id -> the location stored under
                      \* its openleaf-pdf-url key
    compiles,         \* the compileApi.compile calls awaited: [project]
    remote,           \* the remote store: the comments it holds, each with
                      \* its file_path
    listings,         \* the answers of commentsApi.listFile on their way to
                      \* the panel: [path, comments]
    commentsData,     \* the query cache: the comment list received last for a
                      \* file, [path, comments]
    created,          \* the commentsApi.create calls awaited: [path, request,
                      \* id], id the id the remote store gave the comment, or
                      \* null while the call has not reached it
    lastQ             \* history: the step taken last

qvars == <<routeProjectId, fileContentData, pdfUrl, pdfStorage, compiles, remote,
           listings, commentsData, created, lastQ>>

(* --------------------------- the editor store --------------------------- *)

\* state.fileContents[filePath], with a missing key read as undefined
HasBuffer(fc, filePath) == filePath \in DOMAIN fc

\* { ...state.fileContents, [filePath]: buffer }
Put(fc, filePath, buffer) ==
    [q \in (DOMAIN fc) \cup {filePath} |-> IF q = filePath THEN buffer ELSE fc[q]]

\* A plausible slip: the load branch keeps the old baseline.
setFileContent_keepsBaseline(fc, filePath, content, isOriginal) ==
    LET orig == IF HasBuffer(fc, filePath) THEN fc[filePath].originalContent
                ELSE content
    IN  Put(fc, filePath, [content |-> content, originalContent |-> orig,
                           isDirty |-> content # orig])

\* A plausible slip: an edit always flags the buffer dirty.
setFileContent_alwaysDirty(fc, filePath, content, isOriginal) ==
    IF isOriginal
    THEN Put(fc, filePath, [content |-> content, originalContent |-> content,
                            isDirty |-> FALSE])
    ELSE LET orig == IF HasBuffer(fc, filePath) THEN fc[filePath].originalContent
                     ELSE content
         IN  Put(fc, filePath, [content |-> content, originalContent |-> orig,
                                isDirty |-> TRUE])

\* A plausible slip: an edit takes the previous content as the baseline.
setFileContent_baselineFromContent(fc, filePath, content, isOriginal) ==
    IF isOriginal
    THEN Put(fc, filePath, [content |-> content, originalContent |-> content,
                            isDirty |-> FALSE])
    ELSE LET orig == IF HasBuffer(fc, filePath) THEN fc[filePath].content
                     ELSE content
         IN  Put(fc, filePath, [content |-> content, originalContent |-> orig,
                                isDirty |-> content # orig])

\* A plausible slip: an edit rebuilds the map from the edited entry alone.
setFileContent_dropsOthers(fc, filePath, content, isOriginal) ==
    IF isOriginal
    THEN Put(fc, filePath, [content |-> content, originalContent |-> content,
                            isDirty |-> FALSE])
    ELSE LET orig == IF HasBuffer(fc, filePath) THEN fc[filePath].originalContent
                     ELSE content
         IN  [q \in {filePath} |-> [content |-> content, originalContent |-> orig,
                                    isDirty |-> content # orig]]

\* setFileContent(filePath, content, isOriginal = false): the next fileContents
setFileContent(fc, filePath, content, isOriginal) ==
    IF isOriginal
    THEN Put(fc, filePath, [content |-> content, originalContent |-> content,
                            isDirty |-> FALSE])
    ELSE LET orig == IF HasBuffer(fc, filePath) THEN fc[filePath].originalContent
                     ELSE content
         IN  Put(fc, filePath, [content |-> content, originalContent |-> orig,
                                isDirty |-> content # orig])

\* A plausible slip: the flag is cleared but the baseline is not moved.
markFileSaved_keepsBaseline(fc, filePath) ==
    IF ~HasBuffer(fc, filePath) THEN fc
    ELSE Put(fc, filePath, [fc[filePath] EXCEPT !.isDirty = FALSE])

\* markFileSaved(filePath): the next fileContents
markFileSaved(fc, filePath) ==
    IF ~HasBuffer(fc, filePath) THEN fc
    ELSE Put(fc, filePath, [fc[filePath] EXCEPT !.originalContent = fc[filePath].content,
                                                !.isDirty = FALSE])

\* A plausible slip: a missing buffer reads as the empty text.
getFileContent_defaultsEmpty(fc, filePath) ==
    IF HasBuffer(fc, filePath) THEN fc[filePath].content ELSE EmptyText

\* getFileContent(filePath)
getFileContent(fc, filePath) ==
    IF HasBuffer(fc, filePath) THEN fc[filePath].content ELSE undefined

\* isFileDirty(filePath)
isFileDirty(fc, filePath) ==
    IF HasBuffer(fc, filePath) THEN fc[filePath].isDirty ELSE FALSE

\* A plausible slip: every() where some() was meant.
hasUnsavedChanges_every(fc) == \A q \in DOMAIN fc : fc[q].isDirty

\* hasUnsavedChanges()
hasUnsavedChanges(fc) == \E q \in DOMAIN fc : fc[q].isDirty

(* --------------------------- the project store -------------------------- *)

\* The project ids.
Projects == {"P", "Q"}

\* The paths a file listing or a caller can name.
ListedPaths == Paths \cup {"intro.tex"}

\* JavaScript's null.
null == "null"

\* A session record, { openFiles, activeFile }
Record(of, af) == [openFiles |-> of, activeFile |-> af]

\* The value JSON.parse gives for the text null
JsonNull == [null |-> TRUE]

\* A JSON string literal, as a token of the stored text.
Quote(path) == "\"" \o path \o "\""

\* A plausible slip: the list is written from its end.
Stringify_reversed(rec) ==
    <<"{", "openFiles", "[">>
        \o [i \in 1..Len(rec.openFiles) |->
               Quote(rec.openFiles[Len(rec.openFiles) + 1 - i])]
        \o <<"]", "activeFile",
             IF rec.activeFile = null THEN "null" ELSE Quote(rec.activeFile), "}">>

\* JSON.stringify({ openFiles, activeFile }): the text, token by token.
Stringify(rec) ==
    <<"{", "openFiles", "[">>
        \o [i \in 1..Len(rec.openFiles) |-> Quote(rec.openFiles[i])]
        \o <<"]", "activeFile",
             IF rec.activeFile = null THEN "null" ELSE Quote(rec.activeFile), "}">>

\* The string a JSON string literal denotes.
Unquote(token) == CHOOSE path \in ListedPaths : Quote(path) = token

IsQuoted(token) == \E path \in ListedPaths : Quote(path) = token

\* The text is one the JSON grammar accepts: null, or a session record.
Parseable(text) ==
    \/ text = <<"null">>
    \/ /\ Len(text) >= 7
       /\ SubSeq(text, 1, 3) = <<"{", "openFiles", "[">>
       /\ \A i \in 4..(Len(text) - 4) : IsQuoted(text[i])
       /\ text[Len(text) - 3] = "]"
       /\ text[Len(text) - 2] = "activeFile"
       /\ text[Len(text) - 1] = "null" \/ IsQuoted(text[Len(text) - 1])
       /\ text[Len(text)] = "}"

\* JSON.parse(text) of a parseable text.
Parse(text) ==
    IF text = <<"null">> THEN JsonNull
    ELSE Record([i \in 1..(Len(text) - 7) |-> Unquote(text[i + 3])],
                IF text[Len(text) - 1] = "null" THEN null
                ELSE Unquote(text[Len(text) - 1]))

\* The texts that are no session record: the empty string, a truncated record
\* and the JSON text null.
CorruptTexts == {<<>>, <<"{", "openFiles">>, <<"null">>}

\* localStorage.getItem(key) is not null
HasItem(st, projectId) == projectId \in DOMAIN st

\* A plausible slip: one key for all the projects.
StorageKey_shared(projectId) == "P"

\* `${STORAGE_KEY}-${projectId}`: the key is one per project id.
StorageKey(projectId) == projectId

\* getStoredState(projectId): the stored value, or the empty record when there
\* is no item, the item is the empty string, or JSON.parse throws.
getStoredState(st, projectId) ==
    LET key == StorageKey(projectId) IN
    IF HasItem(st, key) /\ st[key] # <<>> /\ Parseable(st[key])
    THEN Parse(st[key])
    ELSE Record(<<>>, null)

\* saveState(projectId, openFiles, activeFile): the next localStorage (writes
\* are taken to succeed).
saveState(st, projectId, of, af) ==
    LET key == StorageKey(projectId) IN
    [k \in (DOMAIN st) \cup {key} |-> IF k = key THEN Stringify(Record(of, af)) ELSE st[k]]

\* array.filter(keep)
Filter(seq, keep(_)) == SelectSeq(seq, keep)

\* array.includes(path)
Includes(seq, path) == \E i \in 1..Len(seq) : seq[i] = path

\* array[array.length - 1] || null
LastOrNull(seq) == IF Len(seq) = 0 THEN null ELSE seq[Len(seq)]

\* A plausible slip: the active file is pruned, the open files are not.
setFiles_keepsOpenFiles(of, af, existingPaths) ==
    Record(of, IF af # null /\ af \in existingPaths THEN af ELSE null)

\* setFiles: the record it computes from that of the state.
setFiles(of, af, existingPaths) ==
    Record(Filter(of, LAMBDA path : path \in existingPaths),
           IF af # null /\ af \in existingPaths THEN af ELSE null)

\* A plausible slip: the includes() test is left out.
openFile_alwaysAppends(of, af, path) == Record(Append(of, path), path)

\* A plausible slip: a file opened anew is put first.
openFile_prepends(of, af, path) ==
    Record(IF ~Includes(of, path) THEN <<path>> \o of ELSE of, path)

\* openFile: the record it computes from that of the state.
openFile(of, af, path) ==
    Record(IF ~Includes(of, path) THEN Append(of, path) ELSE of, path)

\* A plausible slip: the first remaining entry is made active.
closeFile_firstRemaining(of, af, path) ==
    LET newOpenFiles == Filter(of, LAMBDA f : f # path) IN
    Record(newOpenFiles,
           IF af = path
           THEN (IF Len(newOpenFiles) = 0 THEN null ELSE newOpenFiles[1])
           ELSE af)

\* closeFile: the record it computes from that of the state.
closeFile(of, af, path) ==
    LET newOpenFiles == Filter(of, LAMBDA f : f # path) IN
    Record(newOpenFiles, IF af = path THEN LastOrNull(newOpenFiles) ELSE af)

\* setActiveFile: the record it computes from that of the state.
setActiveFile(of, af, path) == Record(of, path)

(* ------------------------- the shortcut registry ------------------------ *)

\* The ShortcutConfig objects callers hold.
Configs == {"saveA", "saveB", "saveMeta"}

\* The fields of each: ctrl, shift, alt and meta are optional in the source
\* and read as false when left out.
Config(config) ==
    CASE config = "saveA" ->
             [key |-> "s", ctrl |-> TRUE, shift |-> FALSE, alt |-> FALSE,
              meta |-> FALSE, handler |-> "handlerA"]
      [] config = "saveB" ->
             [key |-> "s", ctrl |-> TRUE, shift |-> FALSE, alt |-> FALSE,
              meta |-> FALSE, handler |-> "handlerB"]
      [] config = "saveMeta" ->
             [key |-> "S", ctrl |-> FALSE, shift |-> FALSE, alt |-> FALSE,
              meta |-> TRUE, handler |-> "handlerMeta"]

\* The keys a keydown event names.
Keys == {"s", "S", "m"}

\* The keydown events: KeyboardEvent.key and the four modifier flags.
Events == [key : Keys, ctrlKey : BOOLEAN, shiftKey : BOOLEAN, altKey : BOOLEAN,
           metaKey : BOOLEAN]

\* The components that call useKeyboardShortcuts.
Surfaces == {"layout", "editor"}

\* The localShortcuts each passes.
LocalShortcuts(surface) ==
    IF surface = "editor" THEN <<"saveMeta", "saveB">> ELSE <<>>

\* String.prototype.toLowerCase()
toLowerCase(key) == IF key = "S" THEN "s" ELSE key

\* The test of handleKeyDown's loop: shortcut.meta is not read, and metaKey
\* counts as ctrlKey.
Matches(shortcut, e) ==
    LET ctrlMatch == IF shortcut.ctrl THEN e.ctrlKey \/ e.metaKey
                     ELSE ~e.ctrlKey /\ ~e.metaKey
        shiftMatch == IF shortcut.shift THEN e.shiftKey ELSE ~e.shiftKey
        altMatch == IF shortcut.alt THEN e.altKey ELSE ~e.altKey
    IN  toLowerCase(e.key) = toLowerCase(shortcut.key)
        /\ ctrlMatch /\ shiftMatch /\ altMatch

\* [...shortcuts, ...localShortcuts]
allShortcuts(registered, localShortcuts) ==
    [i \in 1..Len(registered) |-> registered[i].config] \o localShortcuts

\* A plausible slip: the loop has no break, so the last match is the one
\* whose handler stays in effect.
FirstMatch_last(all, e) ==
    IF \E i \in 1..Len(all) : Matches(Config(all[i]), e)
    THEN all[CHOOSE i \in 1..Len(all) :
                 /\ Matches(Config(all[i]), e)
                 /\ \A j \in (i + 1)..Len(all) : ~Matches(Config(all[j]), e)]
    ELSE null

\* The loop of handleKeyDown: the config whose handler it calls before the
\* break, or null when no config matches.
FirstMatch(all, e) ==
    IF \E i \in 1..Len(all) : Matches(Config(all[i]), e)
    THEN all[CHOOSE i \in 1..Len(all) :
                 /\ Matches(Config(all[i]), e)
                 /\ \A j \in 1..(i - 1) : ~Matches(Config(all[j]), e)]
    ELSE null

\* The keydown listeners of the window run one after the other, each over
\* the registry and its component's localShortcuts: the configs whose
\* handlers are called, in the order of the calls.
Fired(registered, listeners, e) ==
    SelectSeq([i \in 1..Len(listeners) |->
                   FirstMatch(allShortcuts(registered, LocalShortcuts(listeners[i])), e)],
              LAMBDA config : config # null)

\* shortcuts.indexOf(config), from 1; 0 when the object is not in the array
indexOf(registered, config) ==
    IF \E i \in 1..Len(registered) : registered[i].config = config
    THEN CHOOSE i \in 1..Len(registered) :
             /\ registered[i].config = config
             /\ \A j \in 1..(i - 1) : registered[j].config # config
    ELSE 0

\* shortcuts.splice(index, 1)
splice(registered, index) ==
    SubSeq(registered, 1, index - 1) \o SubSeq(registered, index + 1, Len(registered))

\* The registry as the module creates it, with no component mounted.
ShortcutInit ==
    /\ shortcuts = <<>>
    /\ issued = {}
    /\ regs = 0
    /\ mounted = <<>>
    /\ lastK = [op |-> "init", arg |-> null, fired |-> <<>>, shortcuts |-> <<>>]

\* registerShortcut(config)
RegisterShortcut(config) ==
    /\ regs < MaxRegs
    /\ regs' = regs + 1
    /\ shortcuts' = Append(shortcuts, [config |-> config, reg |-> regs + 1])
    /\ issued' = issued \cup {[config |-> config, reg |-> regs + 1]}
    /\ UNCHANGED mounted

\* A call of a function registerShortcut returned.
Unregister(unregister) ==
    LET index == indexOf(shortcuts, unregister.config) IN
    /\ shortcuts' = IF index > 0 THEN splice(shortcuts, index) ELSE shortcuts
    /\ UNCHANGED <<issued, regs, mounted>>

\* A component that calls useKeyboardShortcuts mounts: its effect adds a
\* keydown listener to the window.
Mount(surface) ==
    /\ ~Includes(mounted, surface)
    /\ mounted' = Append(mounted, surface)
    /\ UNCHANGED <<shortcuts, issued, regs>>

\* The component unmounts: the effect's cleanup removes its listener.
Unmount(surface) ==
    /\ Includes(mounted, surface)
    /\ mounted' = SelectSeq(mounted, LAMBDA other : other # surface)
    /\ UNCHANGED <<shortcuts, issued, regs>>

\* A keydown event reaches the window: the handlers run and change nothing
\* of the registry.
KeyDown(e) == UNCHANGED <<shortcuts, issued, regs, mounted>>

\* The step taken, its argument, the configs whose handlers it called, and
\* the shortcuts array it found.
DidK(op, arg, fired) ==
    lastK' = [op |-> op, arg |-> arg, fired |-> fired, shortcuts |-> shortcuts]

(* ------------------- the comments store and the Editor ------------------ *)

\* The file the Editor shows.
EditorFilePath == "main.tex"

\* The length a line of the document takes in the model.
LineLengths == {0, 1}

\* The ids the remote store gives to comments.
CommentIds == {"c1", "c2"}

\* The line numbers a comment of the remote store can carry: those of a
\* document of MaxLines lines and one beyond.
LineNumbers == 1..(MaxLines + 1)

\* A Comment, with the fields the client reads.
Comment(id, lineStart, lineEnd, resolved) ==
    [id |-> id, line_start |-> lineStart, line_end |-> lineEnd,
     resolved |-> resolved]

RECURSIVE Sum(_)
Sum(lengths) ==
    IF lengths = <<>> THEN 0 ELSE Head(lengths) + 1 + Sum(Tail(lengths))

\* doc.lines
lines(d) == Len(d)

\* doc.line(n).from and doc.line(n).to, for 1 <= n <= doc.lines
LineFrom(d, n) == Sum(SubSeq(d, 1, n - 1))

LineTo(d, n) == LineFrom(d, n) + d[n]

\* doc.length
DocLength(d) == LineTo(d, Len(d))

\* doc.line(n) raises a RangeError for n outside 1..doc.lines
LineThrows(d, n) == n < 1 \/ n > lines(d)

\* doc.lineAt(pos).number
lineAt(d, pos) ==
    CHOOSE n \in 1..Len(d) : LineFrom(d, n) <= pos /\ pos <= LineTo(d, n)

\* doc.toString()
RECURSIVE toString(_)
toString(d) ==
    IF Len(d) = 1 THEN Text(d[1])
    ELSE Text(Head(d)) \o "\n" \o toString(Tail(d))

\* The document after the lines oldStart .. oldEnd - 1 are replaced by
\* newLines; a document has one line at least.
ReplaceLines(d, oldStart, oldEnd, newLines) ==
    LET result == SubSeq(d, 1, oldStart - 1) \o newLines \o SubSeq(d, oldEnd, Len(d))
    IN  IF result = <<>> THEN <<0>> ELSE result

\* The same replacement as the change of the transaction: the characters
\* from .. to are replaced by insert characters.
Change(d, oldStart, oldEnd, newLines) ==
    IF oldEnd <= Len(d)
    THEN [from |-> LineFrom(d, oldStart), to |-> LineFrom(d, oldEnd),
          insert |-> Sum(newLines)]
    ELSE IF oldStart > 1
    THEN [from |-> LineTo(d, oldStart - 1), to |-> DocLength(d),
          insert |-> Sum(newLines)]
    ELSE [from |-> 0, to |-> DocLength(d),
          insert |-> IF newLines = <<>> THEN 0 ELSE Sum(newLines) - 1]

\* ChangeDesc.mapPos(pos, assoc) for a change of one replaced range
mapPos(change, pos, assoc) ==
    LET len == change.to - change.from IN
    IF pos < change.from THEN pos
    ELSE IF change.to > pos \/ (change.to = pos /\ assoc < 0 /\ len = 0)
    THEN (IF pos = change.from \/ assoc < 0 THEN change.from
          ELSE change.from + change.insert)
    ELSE pos - len + change.insert

\* highlights.map(tr.changes): a mark's start is mapped forward and its end
\* backward, and a mark left empty is dropped.
MapHighlights(marks, change) ==
    LET mapped(mark) == [id |-> mark.id,
                         from |-> mapPos(change, mark.from, 1),
                         to |-> mapPos(change, mark.to, 0 - 1)]
    IN  {mapped(mark) : mark \in {m \in marks : mapped(m).from < mapped(m).to}}

\* useCommentsStore.pendingSelection when it is null
nullSelection == [null |-> TRUE]

\* Math.min
Min(a, b) == IF a < b THEN a ELSE b

\* The loop of the highlight effect: for every unresolved comment whose
\* clamped lines exist, { from, to, id }.
HighlightList(d, cs) ==
    {[id |-> cs[i].id,
      from |-> LineFrom(d, Min(cs[i].line_start, lines(d))),
      to |-> LineTo(d, Min(cs[i].line_end, lines(d)))] :
        i \in {k \in 1..Len(cs) :
                  /\ ~cs[k].resolved
                  /\ ~LineThrows(d, Min(cs[k].line_start, lines(d)))
                  /\ ~LineThrows(d, Min(cs[k].line_end, lines(d)))}}

\* highlightMark.range(from, to) raises a RangeError for an empty mark
RangeThrows(mark) == mark.from >= mark.to

\* The two stores and the Editor as created: an empty document, no comment.
CommentsInit ==
    /\ doc = <<0>>
    /\ comments = <<>>
    /\ highlights = {}
    /\ effectError = FALSE
    /\ pendingSelection = nullSelection
    /\ isAddingComment = FALSE
    /\ creating = {}
    /\ lastA = [op |-> "init", oldStart |-> 0, oldEnd |-> 0, newLineCount |-> 0]
    /\ orphaned = [ids |-> {}, edited |-> FALSE]
    /\ selLines = 0

(* ----------------- the route, the queries, the preview ------------------ *)

\* MainLayout as mounted at the route of project P: no query has answered,
\* no location is stored, the remote store holds no comment.
QueryInit ==
    /\ routeProjectId = "P"
    /\ fileContentData = [p \in Paths |-> undefined]
    /\ pdfUrl = null
    /\ pdfStorage = <<>>
    /\ compiles = {}
    /\ remote = {}
    /\ listings = {}
    /\ commentsData = {}
    /\ created = {}
    /\ lastQ = [op |-> "init", arg |-> null]

(* ------------------------------- steps ---------------------------------- *)

\* The editor store as created.
EditorInit ==
    /\ fileContents = <<>>
    /\ isSaving = FALSE
    /\ saves = EmptyBag
    /\ last = [op |-> "init", path |-> undefined, content |-> undefined,
               before |-> undefined]
    /\ synced = [p \in Paths |-> {}]

\* The project store as created.
SessionInit ==
    /\ currentProject = null
    /\ files = {}
    /\ openFiles = <<>>
    /\ activeFile = null
    /\ thrown = FALSE
    /\ lastS = [op |-> "init", arg |-> null, project |-> null,
                openFiles |-> <<>>, activeFile |-> null]
    /\ persisted = <<>>

\* Both stores as created, over an empty localStorage.
Init ==
    /\ EditorInit
    /\ SessionInit
    /\ storage = <<>>
    /\ ShortcutInit
    /\ CommentsInit
    /\ QueryInit

\* The content query of file p resolves with the content c the remote store
\* holds (other collaborators write there too, so c is any content) and the
\* Editor's load effect stores it.
LoadFile(p, c) ==
    /\ fileContents' = setFileContent(fileContents, p, c, TRUE)
    /\ UNCHANGED <<isSaving, saves>>

\* The content query fails: its data stays undefined and the effect stores nothing.
LoadFail(p) ==
    UNCHANGED <<fileContents, isSaving, saves>>

\* The update listener of the editing widget reports a changed document.
Edit(p, c) ==
    /\ fileContents' = setFileContent(fileContents, p, c, FALSE)
    /\ UNCHANGED <<isSaving, saves>>

\* An updateContent(fileId, content) call
Request(filePath, content) == [path |-> filePath, content |-> content]

\* handleSave up to its await: an early return when the path has no buffer,
\* else setSaving(true) and the updateContent call with the content read.
SaveStart(p) ==
    LET content == getFileContent(fileContents, p) IN
    IF content = undefined
    THEN UNCHANGED <<fileContents, isSaving, saves>>
    ELSE /\ BagCardinality(saves) < MaxSaves
         /\ saves' = saves (+) SetToBag({Request(p, content)})
         /\ isSaving' = TRUE
         /\ UNCHANGED fileContents

\* A plausible slip: the confirmation marks the file active when it arrives.
SaveConfirm_marksActive(r) ==
    /\ BagIn(r, saves)
    /\ fileContents' = markFileSaved(fileContents, activeFile)
    /\ isSaving' = FALSE
    /\ saves' = saves (-) SetToBag({r})

\* handleSave after its await resolves (the remote store has stored r.content
\* and answered): markFileSaved, then setSaving(false).
SaveConfirm(r) ==
    /\ BagIn(r, saves)
    /\ fileContents' = markFileSaved(fileContents, r.path)
    /\ isSaving' = FALSE
    /\ saves' = saves (-) SetToBag({r})

\* A plausible slip: markFileSaved moved out of the try into the finally.
SaveError_marksSaved(r) ==
    /\ BagIn(r, saves)
    /\ fileContents' = markFileSaved(fileContents, r.path)
    /\ isSaving' = FALSE
    /\ saves' = saves (-) SetToBag({r})

\* handleSave after its await rejects: the catch logs, then setSaving(false).
SaveError(r) ==
    /\ BagIn(r, saves)
    /\ isSaving' = FALSE
    /\ saves' = saves (-) SetToBag({r})
    /\ UNCHANGED fileContents

(* ------------------------------ histories ------------------------------- *)

\* The step taken: op names it; path and content are its arguments (of a save
\* step, the path and the content its request carries); before is
\* getFileContent(path) as the step found it.
Did(op, filePath, content) ==
    /\ last' = [op |-> op, path |-> filePath, content |-> content,
                before |-> getFileContent(fileContents, filePath)]
    /\ UNCHANGED synced

\* The remote store returned content c from a load of p, or acknowledged it in a
\* save of p.
Acknowledged(p, c) ==
    /\ synced' = [synced EXCEPT ![p] = @ \cup {c}]
    /\ UNCHANGED last

SaveStartOp(p) ==
    IF getFileContent(fileContents, p) = undefined THEN "saveSkipped" ELSE "saveStart"

Next ==
    \/ \E p \in Paths, c \in Contents : LoadFile(p, c) /\ Did("load", p, c) /\ UNCHANGED <<svars, kvars, avars, qvars>>
    \/ \E p \in Paths : LoadFail(p) /\ Did("loadFail", p, undefined)
           /\ UNCHANGED <<svars, kvars, avars, qvars>>
    \/ \E p \in Paths, c \in Contents : Edit(p, c) /\ Did("edit", p, c) /\ UNCHANGED <<svars, kvars, avars, qvars>>
    \/ \E p \in Paths :
           SaveStart(p) /\ Did(SaveStartOp(p), p, getFileContent(fileContents, p))
           /\ UNCHANGED <<svars, kvars, avars, qvars>>
    \/ \E r \in BagToSet(saves) : SaveConfirm(r) /\ Did("saveConfirm", r.path, r.content)
           /\ UNCHANGED <<svars, kvars, avars, qvars>>
    \/ \E r \in BagToSet(saves) : SaveError(r) /\ Did("saveError", r.path, r.content)
           /\ UNCHANGED <<svars, kvars, avars, qvars>>

\* The editor store and its save and load protocols, with the step taken last.
Spec == Init /\ [][Next]_vars

NextSynced ==
    \/ \E p \in Paths, c \in Contents : LoadFile(p, c) /\ Acknowledged(p, c)
           /\ UNCHANGED <<svars, kvars, avars, qvars>>
    \/ \E p \in Paths : LoadFail(p) /\ UNCHANGED <<last, synced>>
           /\ UNCHANGED <<svars, kvars, avars, qvars>>
    \/ \E p \in Paths, c \in Contents : Edit(p, c) /\ UNCHANGED <<last, synced>>
           /\ UNCHANGED <<svars, kvars, avars, qvars>>
    \/ \E p \in Paths : SaveStart(p) /\ UNCHANGED <<last, synced>>
           /\ UNCHANGED <<svars, kvars, avars, qvars>>
    \/ \E r \in BagToSet(saves) : SaveConfirm(r) /\ Acknowledged(r.path, r.content)
           /\ UNCHANGED <<svars, kvars, avars, qvars>>
    \/ \E r \in BagToSet(saves) : SaveError(r) /\ UNCHANGED <<last, synced>>
           /\ UNCHANGED <<svars, kvars, avars, qvars>>

\* The same program, with the history of what the remote store has confirmed.
SpecSynced == Init /\ [][NextSynced]_vars

(* ------------------------ project store: steps -------------------------- *)

\* setCurrentProject(project), project an id or null.  MainLayout passes the
\* project with files: [].  When the stored value parses to null, reading
\* stored.openFiles raises a TypeError before set() is reached.
SetCurrentProject(project) ==
    IF project # null
    THEN LET stored == getStoredState(storage, project) IN
         IF stored = JsonNull
         THEN /\ thrown' = TRUE
              /\ UNCHANGED <<currentProject, files, openFiles, activeFile, storage>>
         ELSE /\ currentProject' = project
              /\ files' = {}
              /\ openFiles' = stored.openFiles
              /\ activeFile' = stored.activeFile
              /\ thrown' = FALSE
              /\ UNCHANGED storage
    ELSE /\ currentProject' = null
         /\ files' = {}
         /\ openFiles' = <<>>
         /\ activeFile' = null
         /\ thrown' = FALSE
         /\ UNCHANGED storage

\* setFiles(files), files given by the set of its paths.
SetFiles(existingPaths) ==
    IF currentProject = null
    THEN /\ thrown' = FALSE
         /\ UNCHANGED <<currentProject, files, openFiles, activeFile, storage>>
    ELSE LET valid == setFiles(openFiles, activeFile, existingPaths) IN
         /\ storage' = saveState(storage, currentProject, valid.openFiles, valid.activeFile)
         /\ files' = existingPaths
         /\ openFiles' = valid.openFiles
         /\ activeFile' = valid.activeFile
         /\ thrown' = FALSE
         /\ UNCHANGED currentProject

\* A plausible slip: saveState is passed the record the operation found.
Commit_savesFound(new) ==
    /\ storage' = IF currentProject # null
                  THEN saveState(storage, currentProject, openFiles, activeFile)
                  ELSE storage
    /\ openFiles' = new.openFiles
    /\ activeFile' = new.activeFile
    /\ thrown' = FALSE
    /\ UNCHANGED <<currentProject, files>>

\* What openFile, closeFile and setActiveFile do with the record computed:
\* saveState when there is a current project, then set().
Commit(new) ==
    /\ storage' = IF currentProject # null
                  THEN saveState(storage, currentProject, new.openFiles, new.activeFile)
                  ELSE storage
    /\ openFiles' = new.openFiles
    /\ activeFile' = new.activeFile
    /\ thrown' = FALSE
    /\ UNCHANGED <<currentProject, files>>

\* openFile(path)
OpenFile(path) == Commit(openFile(openFiles, activeFile, path))

\* closeFile(path)
CloseFile(path) == Commit(closeFile(openFiles, activeFile, path))

\* setActiveFile(path), path a path or null
SetActiveFile(path) == Commit(setActiveFile(openFiles, activeFile, path))

\* The page is loaded anew: the store is created again, localStorage stays.
Restart ==
    /\ currentProject' = null
    /\ files' = {}
    /\ openFiles' = <<>>
    /\ activeFile' = null
    /\ thrown' = FALSE
    /\ UNCHANGED storage

\* The operation called, its argument and the state it found; and, for the
\* operations that call saveState, the record now in the store.
DidS(op, arg) ==
    /\ lastS' = [op |-> op, arg |-> arg, project |-> currentProject,
                 openFiles |-> openFiles, activeFile |-> activeFile]
    /\ persisted' =
           IF currentProject # null
              /\ op \in {"setFiles", "openFile", "closeFile", "setActiveFile"}
           THEN [k \in (DOMAIN persisted) \cup {currentProject} |->
                    IF k = currentProject THEN Record(openFiles', activeFile')
                    ELSE persisted[k]]
           ELSE persisted

\* The project store called in any order, with projects and paths out of the
\* given sets.
SessionStep(projects, paths) ==
    \/ \E project \in projects \cup {null} :
           SetCurrentProject(project) /\ DidS("setCurrentProject", project)
           /\ UNCHANGED <<vars, kvars, avars, qvars>>
    \/ \E existingPaths \in SUBSET paths :
           SetFiles(existingPaths) /\ DidS("setFiles", existingPaths)
           /\ UNCHANGED <<vars, kvars, avars, qvars>>
    \/ \E path \in paths : OpenFile(path) /\ DidS("openFile", path)
           /\ UNCHANGED <<vars, kvars, avars, qvars>>
    \/ \E path \in paths : CloseFile(path) /\ DidS("closeFile", path)
           /\ UNCHANGED <<vars, kvars, avars, qvars>>
    \/ \E path \in paths \cup {null} :
           SetActiveFile(path) /\ DidS("setActiveFile", path)
           /\ UNCHANGED <<vars, kvars, avars, qvars>>
    \/ Restart /\ DidS("restart", null) /\ UNCHANGED <<vars, kvars, avars, qvars>>

NextSession == SessionStep({"P"}, ListedPaths)

\* One project and three paths, from an empty localStorage: the tabs.
SpecSession == Init /\ [][NextSession]_svars

NextProjects == SessionStep(Projects, Paths)

\* Two projects and two paths, from an empty localStorage: the records kept
\* per project.
SpecProjects == Init /\ [][NextProjects]_svars

\* The texts localStorage can hold under a project's key when the page loads.
StoredTexts == CorruptTexts \cup {Stringify(Record(<<"main.tex">>, "main.tex"))}

InitStored ==
    /\ EditorInit
    /\ ShortcutInit
    /\ CommentsInit
    /\ QueryInit
    /\ SessionInit
    /\ \E keys \in SUBSET Projects : storage \in [keys -> StoredTexts]

\* Two projects and two paths over a localStorage that holds any of these texts.
SpecStored == InitStored /\ [][NextProjects]_svars

NextShortcuts ==
    \/ \E config \in Configs :
           RegisterShortcut(config) /\ DidK("register", config, <<>>)
           /\ UNCHANGED <<vars, svars, avars, qvars>>
    \/ \E unregister \in issued :
           Unregister(unregister) /\ DidK("unregister", unregister, <<>>)
           /\ UNCHANGED <<vars, svars, avars, qvars>>
    \/ \E surface \in Surfaces : Mount(surface) /\ DidK("mount", surface, <<>>)
           /\ UNCHANGED <<vars, svars, avars, qvars>>
    \/ \E surface \in Surfaces : Unmount(surface) /\ DidK("unmount", surface, <<>>)
           /\ UNCHANGED <<vars, svars, avars, qvars>>
    \/ \E e \in Events :
           KeyDown(e) /\ DidK("keydown", e, Fired(shortcuts, mounted, e))
           /\ UNCHANGED <<vars, svars, avars, qvars>>

\* The shortcut registry, its registrations and the keydown events.
SpecShortcuts == Init /\ [][NextShortcuts]_kvars

(* ----------------- comments store and Editor: steps --------------------- *)

\* The stores when the Editor shows main.tex of project P: the project has
\* been set, its listing stored, the file opened, and its content, the
\* empty text, loaded.
InitShown ==
    /\ fileContents = setFileContent(<<>>, EditorFilePath, toString(<<0>>), TRUE)
    /\ isSaving = FALSE
    /\ saves = EmptyBag
    /\ last = [op |-> "load", path |-> EditorFilePath, content |-> toString(<<0>>),
               before |-> undefined]
    /\ synced = [p \in Paths |-> IF p = EditorFilePath THEN {toString(<<0>>)} ELSE {}]
    /\ currentProject = "P"
    /\ files = {EditorFilePath}
    /\ openFiles = <<EditorFilePath>>
    /\ activeFile = EditorFilePath
    /\ storage = saveState(<<>>, "P", <<EditorFilePath>>, EditorFilePath)
    /\ thrown = FALSE
    /\ lastS = [op |-> "openFile", arg |-> EditorFilePath, project |-> "P",
                openFiles |-> <<>>, activeFile |-> null]
    /\ persisted = [project \in {"P"} |-> Record(<<EditorFilePath>>, EditorFilePath)]
    /\ ShortcutInit
    /\ CommentsInit
    /\ QueryInit

\* The ids of the comments in the array.
Ids(cs) == {cs[i].id : i \in 1..Len(cs)}

\* The sequences of k lines an edit can put in.
NewLines(k) == [1..k -> LineLengths]

\* The comments the remote store can hold on the lines lineStart .. lineEnd
\* of the file.
WellFormed(id, resolvedValues) ==
    {c \in {Comment(id, lineStart, lineEnd, resolved) :
                lineStart \in LineNumbers, lineEnd \in LineNumbers,
                resolved \in resolvedValues} : c.line_start <= c.line_end}

\* The comment lists a fetch can return: c1 on any lines, open or resolved,
\* and c2 open on line 1.
FetchedLists ==
    {<<>>, <<Comment("c2", 1, 1, FALSE)>>}
        \cup {<<c>> : c \in WellFormed("c1", BOOLEAN)}
        \cup {<<c, Comment("c2", 1, 1, FALSE)>> : c \in WellFormed("c1", BOOLEAN)}

\* The same with c1 open on one line.
FetchedOpen ==
    {<<>>, <<Comment("c2", 1, 1, FALSE)>>}
        \cup {<<Comment("c1", n, n, FALSE)>> : n \in LineNumbers}
        \cup {<<Comment("c1", n, n, FALSE), Comment("c2", 1, 1, FALSE)>> :
                 n \in LineNumbers}

\* The dispatch of the highlight effect raises an error: highlightField
\* builds a mark of every { from, to } and an empty mark is refused.
EffectThrows(d, cs) == \E mark \in HighlightList(d, cs) : RangeThrows(mark)

\* The highlight effect, run because comments changed: the marks are
\* replaced by those of the list, or stay when the dispatch raises an error.
HighlightEffect(cs) ==
    /\ effectError' = EffectThrows(doc, cs)
    /\ highlights' = IF EffectThrows(doc, cs) THEN highlights
                     ELSE HighlightList(doc, cs)

\* A plausible slip: an edit prunes the comments whose lines it deleted.
EditDoc_dropsDeleted(oldStart, oldEnd, newLines) ==
    /\ ~(oldStart = oldEnd /\ newLines = <<>>)
    /\ Len(ReplaceLines(doc, oldStart, oldEnd, newLines)) <= MaxLines
    /\ doc' = ReplaceLines(doc, oldStart, oldEnd, newLines)
    /\ highlights' = MapHighlights(highlights, Change(doc, oldStart, oldEnd, newLines))
    /\ fileContents' = setFileContent(fileContents, EditorFilePath, toString(doc'), FALSE)
    /\ comments' = SelectSeq(comments,
                             LAMBDA c : ~(oldStart <= c.line_start /\ c.line_end < oldEnd))
    /\ UNCHANGED <<effectError, pendingSelection, isAddingComment, creating,
                   isSaving, saves>>

\* A transaction of the editing widget that replaces the lines
\* oldStart .. oldEnd - 1 by newLines: highlightField maps its marks through
\* the change and the update listener calls setFileContent.
EditDoc(oldStart, oldEnd, newLines) ==
    /\ ~(oldStart = oldEnd /\ newLines = <<>>)
    /\ Len(ReplaceLines(doc, oldStart, oldEnd, newLines)) <= MaxLines
    /\ doc' = ReplaceLines(doc, oldStart, oldEnd, newLines)
    /\ highlights' = MapHighlights(highlights, Change(doc, oldStart, oldEnd, newLines))
    /\ fileContents' = setFileContent(fileContents, EditorFilePath, toString(doc'), FALSE)
    /\ UNCHANGED <<comments, effectError, pendingSelection, isAddingComment,
                   creating, isSaving, saves>>

\* The comments query resolves and the panel's effect calls setComments.
FetchComments(fetched) ==
    /\ comments' = fetched
    /\ HighlightEffect(comments')
    /\ UNCHANGED <<doc, pendingSelection, isAddingComment, creating,
                   fileContents, isSaving, saves>>

\* resolveMutation succeeds: updateComment(id, { resolved: true })
ResolveSuccess(id) ==
    /\ comments' = [i \in 1..Len(comments) |->
                       IF comments[i].id = id
                       THEN [comments[i] EXCEPT !.resolved = TRUE]
                       ELSE comments[i]]
    /\ HighlightEffect(comments')
    /\ UNCHANGED <<doc, pendingSelection, isAddingComment, creating,
                   fileContents, isSaving, saves>>

\* deleteMutation succeeds: removeComment(id)
DeleteSuccess(id) ==
    /\ comments' = SelectSeq(comments, LAMBDA c : c.id # id)
    /\ HighlightEffect(comments')
    /\ UNCHANGED <<doc, pendingSelection, isAddingComment, creating,
                   fileContents, isSaving, saves>>

\* A plausible slip: the selection is read by its anchor and head.
handleAddComment_anchorHead(d, anchor, head) ==
    [lineStart |-> lineAt(d, anchor), lineEnd |-> lineAt(d, head)]

\* handleAddComment: the pending selection of the main selection, which
\* runs from the smaller to the larger of its anchor and head.
handleAddComment(d, anchor, head) ==
    [lineStart |-> lineAt(d, Min(anchor, head)),
     lineEnd |-> lineAt(d, IF anchor < head THEN head ELSE anchor)]

\* Mod-m in the editing widget, the main selection being anchor .. head:
\* nothing for an empty selection.
HandleAddComment(anchor, head) ==
    /\ IF anchor = head
       THEN UNCHANGED <<pendingSelection, isAddingComment>>
       ELSE /\ pendingSelection' = handleAddComment(doc, anchor, head)
            /\ isAddingComment' = TRUE
    /\ UNCHANGED <<doc, comments, highlights, effectError, creating,
                   fileContents, isSaving, saves>>

\* The Add button of the form, which is shown while isAddingComment with a
\* pending selection and is disabled for a blank text and while a create
\* call is awaited: handleSubmitComment returns without an active file and
\* else makes the create call.
HandleSubmitComment ==
    /\ isAddingComment
    /\ pendingSelection # nullSelection
    /\ creating = {}
    /\ creating' = IF activeFile = null THEN creating ELSE {pendingSelection}
    /\ UNCHANGED <<doc, comments, highlights, effectError, pendingSelection,
                   isAddingComment, fileContents, isSaving, saves>>

\* createMutation succeeds with the comment the remote store made of the
\* call: addComment, setAddingComment(false), setPendingSelection(null).
CreateSuccess(request, id) ==
    /\ request \in creating
    /\ id \notin Ids(comments)
    /\ creating' = creating \ {request}
    /\ comments' = <<Comment(id, request.lineStart, request.lineEnd, FALSE)>>
                       \o comments
    /\ HighlightEffect(comments')
    /\ isAddingComment' = FALSE
    /\ pendingSelection' = nullSelection
    /\ UNCHANGED <<doc, fileContents, isSaving, saves>>

\* The Cancel button of the panel.
CancelAddComment ==
    /\ isAddingComment' = FALSE
    /\ pendingSelection' = nullSelection
    /\ UNCHANGED <<doc, comments, highlights, effectError, creating,
                   fileContents, isSaving, saves>>

\* The step taken and, of an edit, the lines it replaced and the number of
\* lines it put in.
DidA(op, oldStart, oldEnd, newLineCount) ==
    lastA' = [op |-> op, oldStart |-> oldStart, oldEnd |-> oldEnd,
              newLineCount |-> newLineCount]

\* The comments whose lines, both first and last, are among the lines
\* oldStart .. oldEnd - 1
Inside(cs, oldStart, oldEnd) ==
    {cs[i].id : i \in {k \in 1..Len(cs) :
                          /\ oldStart <= cs[k].line_start
                          /\ cs[k].line_end < oldEnd}}

\* An edit: when it is the first since the fetch and puts no line in, the
\* comments with both ends in the deleted lines are orphaned.
EditOrphans(oldStart, oldEnd, newLineCount) ==
    orphaned' = [ids |-> IF ~orphaned.edited /\ newLineCount = 0
                         THEN Inside(comments, oldStart, oldEnd)
                         ELSE orphaned.ids,
                 edited |-> TRUE]

\* A fetch sets the lines of every comment anew.
FetchOrphans == orphaned' = [ids |-> {}, edited |-> FALSE]

\* A comment resolved or deleted: the ids that remain.
KeepOrphans == orphaned' = [orphaned EXCEPT !.ids = @ \cap Ids(comments')]

\* The frame of the steps of the Editor and the comments panel.
AnchorFrame == UNCHANGED <<last, synced, svars, kvars, qvars>>

NextComments ==
    \/ \E oldStart \in 1..(Len(doc) + 1) :
       \E oldEnd \in oldStart..(Len(doc) + 1) :
       \E newLineCount \in 0..MaxLines :
       \E newLines \in NewLines(newLineCount) :
           /\ EditDoc(oldStart, oldEnd, newLines)
           /\ DidA("edit", oldStart, oldEnd, newLineCount)
           /\ EditOrphans(oldStart, oldEnd, newLineCount)
           /\ UNCHANGED selLines /\ AnchorFrame
    \/ \E fetched \in FetchedLists :
           /\ FetchComments(fetched)
           /\ DidA("setComments", 0, 0, 0) /\ FetchOrphans
           /\ UNCHANGED selLines /\ AnchorFrame
    \/ \E id \in Ids(comments) :
           /\ ResolveSuccess(id)
           /\ DidA("updateComment", 0, 0, 0) /\ KeepOrphans
           /\ UNCHANGED selLines /\ AnchorFrame
    \/ \E id \in Ids(comments) :
           /\ DeleteSuccess(id)
           /\ DidA("removeComment", 0, 0, 0) /\ KeepOrphans
           /\ UNCHANGED selLines /\ AnchorFrame

\* The document edited and the comments fetched, resolved and deleted, with
\* the lines of every edit and the comments it orphaned.
SpecComments == InitShown /\ [][NextComments]_<<vars, avars>>

NextEdits ==
    \/ \E oldStart \in 1..(Len(doc) + 1) :
       \E oldEnd \in oldStart..(Len(doc) + 1) :
       \E newLineCount \in 0..MaxLines :
       \E newLines \in NewLines(newLineCount) :
           /\ EditDoc(oldStart, oldEnd, newLines)
           /\ DidA("edit", 0, 0, 0)
           /\ UNCHANGED <<orphaned, selLines>> /\ AnchorFrame
    \/ \E fetched \in FetchedOpen :
           /\ FetchComments(fetched)
           /\ DidA("setComments", 0, 0, 0)
           /\ UNCHANGED <<orphaned, selLines>> /\ AnchorFrame
    \/ \E id \in Ids(comments) :
           /\ ResolveSuccess(id)
           /\ DidA("updateComment", 0, 0, 0)
           /\ UNCHANGED <<orphaned, selLines>> /\ AnchorFrame
    \/ \E id \in Ids(comments) :
           /\ DeleteSuccess(id)
           /\ DidA("removeComment", 0, 0, 0)
           /\ UNCHANGED <<orphaned, selLines>> /\ AnchorFrame

\* The same steps with the name of the step taken last alone.
SpecEdits == InitShown /\ [][NextEdits]_<<vars, avars>>

NextSelect ==
    \/ \E oldStart \in 1..(Len(doc) + 1) :
       \E oldEnd \in oldStart..(Len(doc) + 1) :
       \E newLineCount \in 0..MaxLines :
       \E newLines \in NewLines(newLineCount) :
           /\ EditDoc(oldStart, oldEnd, newLines)
           /\ UNCHANGED <<lastA, orphaned, selLines>> /\ AnchorFrame
    \/ \E anchor \in 0..DocLength(doc), head \in 0..DocLength(doc) :
           /\ HandleAddComment(anchor, head)
           /\ selLines' = IF anchor = head THEN selLines ELSE lines(doc)
           /\ UNCHANGED <<lastA, orphaned>> /\ AnchorFrame
    \/ /\ HandleSubmitComment
       /\ UNCHANGED <<lastA, orphaned, selLines>> /\ AnchorFrame
    \/ \E request \in creating, id \in {"c1"} :
           /\ CreateSuccess(request, id)
           /\ UNCHANGED <<lastA, orphaned, selLines>> /\ AnchorFrame
    \/ /\ CancelAddComment
       /\ UNCHANGED <<lastA, orphaned, selLines>> /\ AnchorFrame

\* The document edited, and comments added from a selection, with the
\* number of lines the document had when the selection was made.
SpecSelect == InitShown /\ [][NextSelect]_<<vars, avars>>

(* ------------------------------- claims --------------------------------- *)

Buffer(content, originalContent, isDirty) ==
    [content |-> content, originalContent |-> originalContent, isDirty |-> isDirty]

\* C1: after every load, edit and markFileSaved, on any paths, every buffer's
\* isDirty flag is TRUE exactly when its content differs from its
\* originalContent.
C1_DirtyIffContentDiffers ==
    \A p \in DOMAIN fileContents :
        fileContents[p].isDirty <=>
            (fileContents[p].content # fileContents[p].originalContent)

\* An edit has brought a dirty buffer back to its baseline while another buffer
\* is dirty.
C1_Witness ==
    /\ last.op = "edit"
    /\ last.before \notin {undefined, last.content}
    /\ ~isFileDirty(fileContents, last.path)
    /\ \E q \in DOMAIN fileContents : fileContents[q].isDirty

\* C2: when a save was started on content C1 and the buffer has since been
\* edited to C2 # C1, the confirmation leaves the buffer dirty with content C2
\* and does not make C2 the originalContent.
C2_StaleConfirmLeavesDirty ==
    [][(/\ last'.op = "saveConfirm"
        /\ fileContents[last'.path].content # last'.content
        /\ fileContents[last'.path].isDirty)
       => (/\ fileContents'[last'.path].isDirty
           /\ fileContents'[last'.path].content = fileContents[last'.path].content
           /\ fileContents'[last'.path].originalContent
                  # fileContents[last'.path].content)]_vars

\* C3: processing a failed save leaves every buffer as it was (so a dirty buffer
\* stays dirty and markFileSaved has not run) and starts no new request: the
\* outstanding requests are those before, less the failed one.
C3_FailedSaveLeavesBuffer ==
    [][last'.op = "saveError"
       => (/\ fileContents' = fileContents
           /\ saves' = saves (-) SetToBag({Request(last'.path, last'.content)}))]_vars

\* A failed save of a dirty buffer has been processed.
C3_Witness ==
    /\ last.op = "saveError"
    /\ isFileDirty(fileContents, last.path)
    /\ fileContents[last.path].content # fileContents[last.path].originalContent

\* C4: every buffer's originalContent is a content the remote store returned
\* from a load of that file or acknowledged in a save of that file.
C4_BaselineConfirmedByRemote ==
    \A p \in DOMAIN fileContents : fileContents[p].originalContent \in synced[p]

\* C5: a load of path p with content c, whatever p's buffer was, leaves p with
\* content = originalContent = c and isDirty = FALSE and every other path as it
\* was; the load taken last has left its path so.
C5_LoadResetsBuffer ==
    /\ \A p \in Paths, c \in Contents :
           LET fc == setFileContent(fileContents, p, c, TRUE) IN
           /\ DOMAIN fc = DOMAIN fileContents \cup {p}
           /\ fc[p] = Buffer(c, c, FALSE)
           /\ \A q \in DOMAIN fileContents \ {p} : fc[q] = fileContents[q]
    /\ last.op = "load" => fileContents[last.path] = Buffer(last.content, last.content, FALSE)

\* A load has replaced a buffer that held another content, while the other
\* path's buffer is dirty.
C5_Witness ==
    /\ last.op = "load"
    /\ last.before \notin {undefined, last.content}
    /\ \E q \in DOMAIN fileContents \ {last.path} : fileContents[q].isDirty

\* C6: an edit of a path that has a buffer sets content to c, keeps
\* originalContent, sets isDirty to (c # originalContent) in the same step and
\* leaves every other path as it was; after an edit, reading the path returns
\* the content reported last.
C6_EditSetsContent ==
    /\ \A p \in DOMAIN fileContents, c \in Contents :
           LET fc == setFileContent(fileContents, p, c, FALSE) IN
           /\ DOMAIN fc = DOMAIN fileContents
           /\ fc[p] = Buffer(c, fileContents[p].originalContent,
                             c # fileContents[p].originalContent)
           /\ \A q \in DOMAIN fileContents \ {p} : fc[q] = fileContents[q]
    /\ last.op = "edit" => getFileContent(fileContents, last.path) = last.content

\* An edit has changed the content of an existing buffer, next to another buffer.
C6_Witness ==
    /\ last.op = "edit"
    /\ last.before \notin {undefined, last.content}
    /\ isFileDirty(fileContents, last.path)
    /\ \E q \in DOMAIN fileContents : q # last.path

\* C7: an edit applied twice gives the state it gives applied once, and an edit
\* with the buffer's current content changes nothing.
C7_EditIdempotent ==
    \A p \in Paths, c \in Contents :
        LET once == setFileContent(fileContents, p, c, FALSE) IN
        /\ setFileContent(once, p, c, FALSE) = once
        /\ (HasBuffer(fileContents, p) /\ fileContents[p].content = c)
               => once = fileContents

\* An edit has reported the content a dirty buffer already held.
C7_Witness ==
    /\ last.op = "edit"
    /\ last.before = last.content
    /\ isFileDirty(fileContents, last.path)

\* C8: markFileSaved of a path with a buffer makes the current content the
\* originalContent and clears isDirty without changing content, so that
\* isFileDirty is FALSE and getFileContent returns originalContent; of a path
\* with no buffer it changes nothing and creates no buffer.  The confirmation
\* taken last has left its path so.
C8_MarkSaved ==
    /\ \A p \in Paths :
           LET fc == markFileSaved(fileContents, p) IN
           IF HasBuffer(fileContents, p)
           THEN /\ DOMAIN fc = DOMAIN fileContents
                /\ fc[p] = Buffer(fileContents[p].content, fileContents[p].content, FALSE)
                /\ ~isFileDirty(fc, p)
                /\ getFileContent(fc, p) = fc[p].originalContent
                /\ \A q \in DOMAIN fileContents \ {p} : fc[q] = fileContents[q]
           ELSE fc = fileContents /\ ~HasBuffer(fc, p)
    /\ last.op = "saveConfirm"
           => /\ ~isFileDirty(fileContents, last.path)
              /\ getFileContent(fileContents, last.path) = last.before
              /\ fileContents[last.path].originalContent = last.before

\* A confirmation has marked a buffer saved while another path has no buffer.
C8_Witness ==
    /\ last.op = "saveConfirm"
    /\ HasBuffer(fileContents, last.path)
    /\ \E q \in Paths : ~HasBuffer(fileContents, q)

\* C9: a path with no buffer reads as undefined, never as the empty text, and
\* so differs from every path that has a buffer, one holding the empty text
\* included; it is not dirty; and the read (in handleSave) creates no buffer.
C9_AbsentIsNotEmpty ==
    /\ undefined \notin Contents
    /\ \A p \in Paths \ DOMAIN fileContents :
           /\ getFileContent(fileContents, p) = undefined
           /\ getFileContent(fileContents, p) # EmptyText
           /\ ~isFileDirty(fileContents, p)
           /\ \A q \in DOMAIN fileContents :
                  getFileContent(fileContents, q) # getFileContent(fileContents, p)
    /\ last.op = "saveSkipped" => ~HasBuffer(fileContents, last.path)

\* handleSave has read a path with no buffer while another path holds the
\* empty text.
C9_Witness ==
    /\ last.op = "saveSkipped"
    /\ last.before = undefined
    /\ \E q \in DOMAIN fileContents : fileContents[q].content = EmptyText

\* C10: hasUnsavedChanges() is TRUE exactly when some buffer's content differs
\* from its originalContent.
C10_UnsavedIffSomeDiffers ==
    hasUnsavedChanges(fileContents) <=>
        \E p \in DOMAIN fileContents :
            fileContents[p].content # fileContents[p].originalContent

\* One buffer is dirty and another has just been marked saved.
C10_Witness ==
    /\ hasUnsavedChanges(fileContents)
    /\ last.op = "saveConfirm"
    /\ ~fileContents[last.path].isDirty

(* --------------------------- claims C11 - C20 --------------------------- *)

\* a occurs before b in seq
Precedes(seq, a, b) ==
    \E i \in 1..Len(seq) : \E j \in (i + 1)..Len(seq) : seq[i] = a /\ seq[j] = b

\* now holds exactly the entries of was that are in keep, in the order of was
Survivors(was, now, keep) ==
    /\ \A path \in ListedPaths :
           Includes(now, path) <=> (Includes(was, path) /\ path \in keep)
    /\ \A a \in ListedPaths, b \in ListedPaths :
           Precedes(now, a, b) <=> (Precedes(was, a, b) /\ {a, b} \subseteq keep)

\* The record localStorage holds for the current project.
StoredRecord == getStoredState(storage, currentProject)

\* C11: in every reachable state of the project store, activeFile is null or
\* an element of openFiles.
C11_ActiveIsOpen == activeFile = null \/ Includes(openFiles, activeFile)

\* C12: setActiveFile(p) with p not in openFiles is a no-op: openFiles,
\* activeFile and the persisted record are as before; with p in openFiles or
\* null it changes activeFile only.
C12_SetActiveNonMemberNoOp ==
    lastS.op = "setActiveFile" =>
        /\ openFiles = lastS.openFiles
        /\ (lastS.arg # null /\ ~Includes(lastS.openFiles, lastS.arg)) =>
               /\ activeFile = lastS.activeFile
               /\ currentProject # null =>
                      StoredRecord = Record(lastS.openFiles, lastS.activeFile)

\* C13, as claimed: closeFile(p) of the active file p makes the entry that
\* immediately preceded p in openFiles the active file.
C13_ClosePrecedingBecomesActive ==
    (lastS.op = "closeFile" /\ lastS.arg = lastS.activeFile) =>
        \A i \in 2..Len(lastS.openFiles) :
            lastS.openFiles[i] = lastS.arg => activeFile = lastS.openFiles[i - 1]

\* C13, amended: closeFile(p) removes p from openFiles and keeps the order of
\* the other entries; when p was the active file, the last of the remaining
\* entries becomes the active file, or null when none remains; when p was not
\* the active file, activeFile is unchanged.
C13_CloseLastRemainingBecomesActive ==
    lastS.op = "closeFile" =>
        /\ Survivors(lastS.openFiles, openFiles, ListedPaths \ {lastS.arg})
        /\ activeFile =
               IF lastS.activeFile # lastS.arg THEN lastS.activeFile
               ELSE IF openFiles = <<>> THEN null
               ELSE openFiles[Len(openFiles)]

\* The active file, second of three open files, has been closed.
C13_Witness ==
    /\ lastS.op = "closeFile"
    /\ lastS.arg = lastS.activeFile
    /\ Len(lastS.openFiles) = 3
    /\ lastS.openFiles[2] = lastS.arg
    /\ activeFile = lastS.openFiles[3]

\* C14: openFile(p) appends p at the end of openFiles iff p was not there,
\* keeps the entries already open in their places, and makes p the active
\* file.
C14_OpenAppendsOnce ==
    lastS.op = "openFile" =>
        /\ activeFile = lastS.arg
        /\ SubSeq(openFiles, 1, Len(lastS.openFiles)) = lastS.openFiles
        /\ IF Includes(lastS.openFiles, lastS.arg)
           THEN Len(openFiles) = Len(lastS.openFiles)
           ELSE /\ Len(openFiles) = Len(lastS.openFiles) + 1
                /\ openFiles[Len(openFiles)] = lastS.arg

\* A path not yet open has been opened next to two open files.
C14_Witness ==
    /\ lastS.op = "openFile"
    /\ Len(lastS.openFiles) = 2
    /\ ~Includes(lastS.openFiles, lastS.arg)
    /\ Len(openFiles) = 3

\* C15: from an empty session, openFiles never holds a path twice.
C15_NoDuplicates ==
    \A i \in 1..Len(openFiles), j \in 1..Len(openFiles) :
        openFiles[i] = openFiles[j] => i = j

\* An open file has been opened again, in a project restored from its record.
C15_Witness ==
    /\ lastS.op = "openFile"
    /\ Includes(lastS.openFiles, lastS.arg)
    /\ Len(openFiles) = 2
    /\ currentProject \in DOMAIN persisted

\* C16: after setFiles(files) with a current project, openFiles is the
\* subsequence of the previous openFiles whose paths are in files, every open
\* file is in the listing, and the pruned record is the one persisted.
C16_SetFilesPrunes ==
    (lastS.op = "setFiles" /\ lastS.project # null) =>
        /\ Survivors(lastS.openFiles, openFiles, lastS.arg)
        /\ files = lastS.arg
        /\ \A i \in 1..Len(openFiles) : openFiles[i] \in files
        /\ StoredRecord = Record(openFiles, activeFile)

\* setFiles has pruned one open file and kept two.
C16_Witness ==
    /\ lastS.op = "setFiles"
    /\ lastS.project # null
    /\ Len(lastS.openFiles) = 3
    /\ Len(openFiles) = 2

\* C17: after setFiles with a listing that excludes the active file (one of
\* the open files), activeFile is one of the remaining open files, and null only when none
\* remains.
C17_PrunedActiveFallsBack ==
    (/\ lastS.op = "setFiles"
     /\ lastS.project # null
     /\ Includes(lastS.openFiles, lastS.activeFile)
     /\ lastS.activeFile \notin lastS.arg) =>
        IF openFiles = <<>> THEN activeFile = null
        ELSE Includes(openFiles, activeFile)

\* C18: localStorage holds, for each project, the record last persisted while
\* that project was current and nothing for a project that persisted none (so
\* no operation changes the record of a project that is not current), and
\* setCurrentProject(P) makes that record of P, or the empty one, the state
\* in memory.
C18_ProjectIsolation ==
    /\ \A q \in Projects :
           IF q \in DOMAIN persisted
           THEN getStoredState(storage, q) = persisted[q]
           ELSE ~HasItem(storage, q)
    /\ (lastS.op = "setCurrentProject" /\ lastS.arg # null) =>
           Record(openFiles, activeFile) =
               IF lastS.arg \in DOMAIN persisted THEN persisted[lastS.arg]
               ELSE Record(<<>>, null)

\* A switch from one project to another, each with a record of its own.
C18_Witness ==
    /\ lastS.op = "setCurrentProject"
    /\ lastS.arg = "P"
    /\ lastS.project = "Q"
    /\ DOMAIN persisted = Projects
    /\ persisted["P"].openFiles # persisted["Q"].openFiles
    /\ persisted["P"].activeFile # persisted["Q"].activeFile
    /\ lastS.openFiles = persisted["Q"].openFiles
    /\ openFiles = persisted["P"].openFiles

\* C19: a record reached while a project is current, written by saveState and
\* read back by getStoredState for that project, is the same record; and
\* setCurrentProject of a project with a record persisted restores the same
\* openFiles in the same order and the same activeFile.
C19_RoundTrip ==
    /\ currentProject # null =>
           getStoredState(saveState(storage, currentProject, openFiles, activeFile),
                          currentProject) = Record(openFiles, activeFile)
    /\ \A q \in DOMAIN persisted : Parse(storage[StorageKey(q)]) = persisted[q]
    /\ (/\ lastS.op = "setCurrentProject"
        /\ lastS.arg \in DOMAIN persisted) =>
           /\ openFiles = persisted[lastS.arg].openFiles
           /\ activeFile = persisted[lastS.arg].activeFile

\* A record of three open files is restored after the page was loaded anew.
C19_Witness ==
    /\ lastS.op = "setCurrentProject"
    /\ lastS.arg \in DOMAIN persisted
    /\ lastS.project = null
    /\ lastS.openFiles = <<>>
    /\ Len(openFiles) = 3
    /\ activeFile = openFiles[1]

\* C20: setCurrentProject(P) over a stored entry of P that is no session
\* record completes with openFiles = [] and activeFile = null and raises no
\* error.
C20_CorruptFallsBack ==
    (/\ lastS.op = "setCurrentProject"
     /\ lastS.arg # null
     /\ HasItem(storage, StorageKey(lastS.arg))
     /\ storage[StorageKey(lastS.arg)] \in CorruptTexts) =>
        /\ ~thrown
        /\ openFiles = <<>>
        /\ activeFile = null

(* --------------------------- claims C21 - C24 --------------------------- *)

\* The two configs name the same key and the same modifiers.
SameChord(a, b) ==
    /\ Config(a).key = Config(b).key
    /\ Config(a).ctrl = Config(b).ctrl
    /\ Config(a).shift = Config(b).shift
    /\ Config(a).alt = Config(b).alt
    /\ Config(a).meta = Config(b).meta

\* The registration at index i is the first of its key and modifiers.
FirstOfChord(i) ==
    \A k \in 1..(i - 1) : ~SameChord(shortcuts[k].config, shortcuts[i].config)

C22_OneHandlerPerEvent ==
    lastK.op = "keydown" =>
        /\ Len(lastK.fired) <= 1
        /\ \A n \in 1..Len(lastK.fired) :
               \A i \in 1..Len(shortcuts) :
                   Matches(Config(shortcuts[i].config), lastK.arg) =>
                       \E k \in 1..i : lastK.fired[n] = shortcuts[k].config

\* The modifiers a keydown event holds, and those a config requires.
Held(e) ==
    {m \in {"ctrl", "shift", "alt", "meta"} :
        \/ m = "ctrl" /\ e.ctrlKey
        \/ m = "shift" /\ e.shiftKey
        \/ m = "alt" /\ e.altKey
        \/ m = "meta" /\ e.metaKey}

Required(config) ==
    {m \in {"ctrl", "shift", "alt", "meta"} :
        \/ m = "ctrl" /\ Config(config).ctrl
        \/ m = "shift" /\ Config(config).shift
        \/ m = "alt" /\ Config(config).alt
        \/ m = "meta" /\ Config(config).meta}

\* C23: a handler is called only when the modifiers held are exactly those
\* its binding requires; and a binding that requires meta alone, registered
\* first, has its handler called when meta alone is held with its key.
C23_ExactModifiers ==
    lastK.op = "keydown" =>
        /\ \A n \in 1..Len(lastK.fired) :
               Held(lastK.arg) = Required(lastK.fired[n])
        /\ (/\ mounted # <<>>
            /\ shortcuts # <<>>
            /\ Required(shortcuts[1].config) = {"meta"}
            /\ Held(lastK.arg) = {"meta"}
            /\ toLowerCase(lastK.arg.key) = toLowerCase(Config(shortcuts[1].config).key)) =>
               Includes(lastK.fired, shortcuts[1].config)

\* The config objects of the array, in its order.
Objects(registered) == [i \in 1..Len(registered) |-> registered[i].config]

\* C24: a call of a function registerShortcut returned leaves in the array
\* the objects of all the registrations but the one that produced it: a
\* further call changes nothing, also when the same object was registered
\* more than once.
C24_UnregisterExact ==
    lastK.op = "unregister" =>
        Objects(shortcuts) =
            Objects(SelectSeq(lastK.shortcuts,
                              LAMBDA entry : entry.reg # lastK.arg.reg))


(* --------------------------- claims C25 - C30 --------------------------- *)

\* C25: an edit that replaces the lines [oldStart, oldEnd) by newLineCount
\* lines leaves every comment that lies before oldStart on its lines and
\* moves every comment that lies after oldEnd by
\* newLineCount - (oldEnd - oldStart) lines, edit after edit.
C25_AnchorShift ==
    [][lastA'.op = "edit" =>
          /\ Len(comments') = Len(comments)
          /\ \A i \in 1..Len(comments) :
                 /\ comments'[i].id = comments[i].id
                 /\ comments[i].line_end < lastA'.oldStart =>
                        /\ comments'[i].line_start = comments[i].line_start
                        /\ comments'[i].line_end = comments[i].line_end
                 /\ comments[i].line_start > lastA'.oldEnd =>
                        LET delta == lastA'.newLineCount
                                         - (lastA'.oldEnd - lastA'.oldStart)
                        IN  /\ comments'[i].line_start = comments[i].line_start + delta
                            /\ comments'[i].line_end = comments[i].line_end + delta]_<<vars, avars>>

\* C26: a comment whose first and last line were both among the lines a
\* pure deletion took away stays in the comment list and, the highlight
\* effect having raised no error, has no highlight.
C26_OrphanNotHighlighted ==
    /\ orphaned.ids \subseteq Ids(comments)
    /\ ~effectError => \A mark \in highlights : mark.id \notin orphaned.ids

\* C27: an edit with exactly one end of a comment (a comment on lines of
\* the document) among its lines keeps the comment, leaves the end inside at a boundary of the edit, moves the
\* end after the edit by the edit's delta, and leaves
\* 1 <= line_start <= line_end.
C27_AnchorClamp ==
    [][lastA'.op = "edit" =>
          /\ Len(comments') = Len(comments)
          /\ \A i \in 1..Len(comments) :
                 LET edit == lastA'
                     inside(line) == edit.oldStart <= line /\ line < edit.oldEnd
                     delta == edit.newLineCount - (edit.oldEnd - edit.oldStart)
                     boundary == (edit.oldStart - 1)..(edit.oldStart + edit.newLineCount)
                 IN  /\ (/\ inside(comments[i].line_start)
                         /\ comments[i].line_end >= edit.oldEnd
                         /\ comments[i].line_end <= lines(doc)) =>
                            /\ comments'[i].line_start \in boundary
                            /\ comments'[i].line_end = comments[i].line_end + delta
                            /\ 1 <= comments'[i].line_start
                            /\ comments'[i].line_start <= comments'[i].line_end
                     /\ (/\ inside(comments[i].line_end)
                         /\ comments[i].line_start < edit.oldStart) =>
                            /\ comments'[i].line_start = comments[i].line_start
                            /\ comments'[i].line_end \in boundary
                            /\ 1 <= comments'[i].line_start
                            /\ comments'[i].line_start <= comments'[i].line_end]_<<vars, avars>>

\* C28: an edit leaves the ids of the comments in the comments store as they
\* were, and an id leaves the store by removeComment or by a fetched list
\* alone.
C28_EditsKeepComments ==
    [][/\ lastA'.op = "edit" => Ids(comments') = Ids(comments)
       /\ ~(Ids(comments) \subseteq Ids(comments')) =>
              lastA'.op \in {"removeComment", "setComments"}]_<<vars, avars>>

\* An edit has taken away the line an open comment is on.
C28_Witness ==
    /\ lastA.op = "edit"
    /\ \E i \in 1..Len(comments) :
           ~comments[i].resolved /\ comments[i].line_start > lines(doc)

\* The lines of a selection lie in a document of n lines.
InDocument(selection, n) ==
    /\ 1 <= selection.lineStart
    /\ selection.lineStart <= selection.lineEnd
    /\ selection.lineEnd <= n

\* C29: the pending selection handleAddComment sets, and every one
\* handleSubmitComment submits, has
\* 1 <= lineStart <= lineEnd <= the number of lines the document had when
\* the selection was made.
C29_AnchorWellFormed ==
    [][/\ pendingSelection' # nullSelection => InDocument(pendingSelection', selLines')
       /\ \A request \in creating' \ creating :
              request = pendingSelection /\ InDocument(request, selLines)]_<<vars, avars>>

\* A selection of two lines has been submitted, and the document has lost a
\* line since it was made.
C29_Witness ==
    \E request \in creating :
        /\ request.lineStart < request.lineEnd
        /\ request.lineEnd > lines(doc)

\* The open comments with a line beyond the last line of the document.
Beyond(d, cs) ==
    {i \in 1..Len(cs) :
        ~cs[i].resolved /\ (cs[i].line_start > lines(d) \/ cs[i].line_end > lines(d))}

\* C30: when every open comment has a line beyond the last line of the
\* document, the highlight effect raises no error and leaves the marks of
\* the comments on their lines clamped to the last line, built anew.
C30_RenderClamps ==
    (/\ lastA.op \in {"setComments", "updateComment", "removeComment"}
     /\ Beyond(doc, comments) # {}
     /\ \A i \in 1..Len(comments) : ~comments[i].resolved => i \in Beyond(doc, comments))
        => /\ ~effectError
           /\ highlights =
                  {[id |-> comments[i].id,
                    from |-> LineFrom(doc, Min(comments[i].line_start, lines(doc))),
                    to |-> LineTo(doc, Min(comments[i].line_end, lines(doc)))] :
                       i \in Beyond(doc, comments)}

(* ---------------------- the workbench: steps ---------------------------- *)

\* The stores when project P is shown with both files listed and open in
\* tabs, main.tex the active one, and no content query answered yet.
InitOpened ==
    /\ EditorInit
    /\ currentProject = "P"
    /\ files = Paths
    /\ openFiles = <<"main.tex", "refs.bib">>
    /\ activeFile = "main.tex"
    /\ storage = saveState(<<>>, "P", <<"main.tex", "refs.bib">>, "main.tex")
    /\ thrown = FALSE
    /\ lastS = [op |-> "openFile", arg |-> "main.tex", project |-> "P",
                openFiles |-> <<"main.tex", "refs.bib">>, activeFile |-> "refs.bib"]
    /\ persisted = [project \in {"P"} |->
                       Record(<<"main.tex", "refs.bib">>, "main.tex")]
    /\ ShortcutInit
    /\ CommentsInit
    /\ QueryInit

\* The load effect of the Editor shown for filePath, run because filePath or
\* fileContentData changed: the buffers it leaves.
LoadEffect(filePath) ==
    IF filePath # null /\ filePath \in files
    THEN IF fileContentData[filePath] # undefined
         THEN setFileContent(fileContents, filePath, fileContentData[filePath], TRUE)
         ELSE fileContents
    ELSE fileContents

\* The content query of the listed file p answers with content c (the query
\* is made when p is shown and made again by every refetch, and its answer
\* can arrive after another file is shown): the cache takes c, and the load
\* effect runs when p is the file shown.
ContentResponse(p, c) ==
    /\ p \in files
    /\ fileContentData' = [fileContentData EXCEPT ![p] = c]
    /\ fileContents' = IF p = activeFile
                       THEN setFileContent(fileContents, p, c, TRUE)
                       ELSE fileContents
    /\ UNCHANGED <<isSaving, saves>>

\* A click on the tab of path: setActiveFile(path), and the Editor, now
\* given filePath = path, runs its load effect with what the cache holds.
SwitchFile(path) ==
    /\ Includes(openFiles, path)
    /\ SetActiveFile(path)
    /\ fileContents' = IF path # activeFile THEN LoadEffect(path) ELSE fileContents
    /\ UNCHANGED <<isSaving, saves, fileContentData>>

\* The update listener of the Editor shown reports content c.
EditActive(c) ==
    /\ activeFile # null
    /\ Edit(activeFile, c)

\* A click on the Save button, which is enabled while no save is awaited
\* and the active file is dirty: MainLayout.handleSave returns when the
\* active file is not among currentProject.files.
SaveClick ==
    /\ activeFile # null
    /\ ~isSaving
    /\ isFileDirty(fileContents, activeFile)
    /\ IF activeFile \in files
       THEN SaveStart(activeFile)
       ELSE UNCHANGED <<fileContents, isSaving, saves>>

\* The contents the remote store returns for a file.
RemoteContents == {Text(0), Text(1)}

\* The step taken last: a save confirmed or failed, with its path, or
\* another step.
DidQ(op, arg) == lastQ' = [op |-> op, arg |-> arg]

\* The frame of the steps of the workbench.
WorkFrame ==
    UNCHANGED <<last, synced, kvars, avars, routeProjectId, pdfUrl, pdfStorage,
                compiles, remote, listings, commentsData,
                created>>

NextSwitch ==
    \/ \E p \in Paths, c \in RemoteContents :
           /\ ContentResponse(p, c) /\ DidQ("load", p)
           /\ UNCHANGED svars /\ WorkFrame
    \/ \E path \in Paths :
           /\ SwitchFile(path) /\ DidQ("setActiveFile", path)
           /\ UNCHANGED <<lastS, persisted>> /\ WorkFrame
    \/ \E c \in Contents :
           /\ EditActive(c) /\ DidQ("edit", activeFile)
           /\ UNCHANGED <<svars, fileContentData>> /\ WorkFrame
    \/ /\ SaveClick /\ DidQ("saveStart", activeFile)
       /\ UNCHANGED <<svars, fileContentData>> /\ WorkFrame
    \/ \E r \in BagToSet(saves) :
           /\ SaveConfirm(r) /\ DidQ("saveConfirm", r.path)
           /\ UNCHANGED <<svars, fileContentData>> /\ WorkFrame
    \/ \E r \in BagToSet(saves) :
           /\ SaveError(r) /\ DidQ("saveError", r.path)
           /\ UNCHANGED <<svars, fileContentData>> /\ WorkFrame

\* Two files in tabs: shown in turn, loaded, edited, and saved with the Save
\* button.
SpecSwitch == InitOpened /\ [][NextSwitch]_<<vars, svars, qvars>>

\* Mod-s in the Editor shown: Editor.handleSave, which returns when the
\* file has no id or no buffer and else calls setSaving(true) and
\* updateContent.  Nothing disables the key while a save is awaited; the
\* model lets one call more than MaxSaves be awaited at a time.
SaveKey ==
    /\ activeFile # null
    /\ LET content == getFileContent(fileContents, activeFile) IN
       IF activeFile \notin files \/ content = undefined
       THEN UNCHANGED <<fileContents, isSaving, saves>>
       ELSE /\ BagCardinality(saves) <= MaxSaves
            /\ saves' = saves (+) SetToBag({Request(activeFile, content)})
            /\ isSaving' = TRUE
            /\ UNCHANGED fileContents

NextOverlap ==
    \/ \E p \in Paths, c \in RemoteContents :
           /\ ContentResponse(p, c)
           /\ UNCHANGED <<svars, lastQ>> /\ WorkFrame
    \/ \E path \in Paths :
           /\ SwitchFile(path)
           /\ UNCHANGED <<lastS, persisted, lastQ>> /\ WorkFrame
    \/ \E c \in Contents :
           /\ EditActive(c)
           /\ UNCHANGED <<svars, fileContentData, lastQ>> /\ WorkFrame
    \/ /\ SaveKey
       /\ UNCHANGED <<svars, fileContentData, lastQ>> /\ WorkFrame
    \/ \E r \in BagToSet(saves) :
           /\ SaveConfirm(r)
           /\ UNCHANGED <<svars, fileContentData, lastQ>> /\ WorkFrame
    \/ \E r \in BagToSet(saves) :
           /\ SaveError(r)
           /\ UNCHANGED <<svars, fileContentData, lastQ>> /\ WorkFrame

\* The same workbench with saves made by the key of the Editor, which can
\* overlap.
SpecOverlap == InitOpened /\ [][NextOverlap]_<<vars, svars, qvars>>

NextLifetime ==
    \/ \E p \in Paths, c \in RemoteContents :
           /\ ContentResponse(p, c) /\ DidQ("load", p)
           /\ UNCHANGED svars /\ WorkFrame
    \/ \E c \in Contents :
           /\ EditActive(c) /\ DidQ("edit", activeFile)
           /\ UNCHANGED <<svars, fileContentData>> /\ WorkFrame
    \/ \E project \in Projects \cup {null} :
           /\ SetCurrentProject(project) /\ DidQ("setCurrentProject", project)
           /\ UNCHANGED <<vars, lastS, persisted, fileContentData>> /\ WorkFrame
    \/ \E existingPaths \in SUBSET Paths :
           /\ SetFiles(existingPaths) /\ DidQ("setFiles", null)
           /\ UNCHANGED <<vars, lastS, persisted, fileContentData>> /\ WorkFrame

\* Buffers loaded and edited while the project is switched or cleared and
\* its file listing changes.
SpecLifetime == InitOpened /\ [][NextLifetime]_<<vars, svars, qvars>>

(* ------------------- the route and the preview: steps ------------------- *)

\* The pdf_url of a successful compile of a project.
PdfUrlOf(project) == "/pdf/" \o project

\* getStoredPdfUrl(projectId)
getStoredPdfUrl(st, project) ==
    IF project \in DOMAIN st THEN st[project] ELSE null

\* savePdfUrl(projectId, pdfUrl): setItem for a location, removeItem for null
savePdfUrl(st, project, url) ==
    IF url # null
    THEN [k \in (DOMAIN st) \cup {project} |-> IF k = project THEN url ELSE st[k]]
    ELSE [k \in (DOMAIN st) \ {project} |-> st[k]]

\* restorePdfUrl(projectId): the pdfUrl it leaves
restorePdfUrl(st, url, project) ==
    IF getStoredPdfUrl(st, project) # null THEN getStoredPdfUrl(st, project) ELSE url

\* The user goes to the page of another project: the queries of MainLayout
\* take the new projectId and have no answer yet.
Navigate(project) ==
    /\ project # routeProjectId
    /\ routeProjectId' = project
    /\ UNCHANGED <<svars, pdfUrl, pdfStorage, compiles>>

\* The project query of the route answers: setCurrentProject with files: [],
\* then restorePdfUrl.
ProjectResponse ==
    /\ SetCurrentProject(routeProjectId)
    /\ pdfUrl' = restorePdfUrl(pdfStorage, pdfUrl, routeProjectId)
    /\ UNCHANGED <<routeProjectId, pdfStorage, compiles>>

\* The files query of the route answers with the listing of that project:
\* setFiles.
FilesResponse(existingPaths) ==
    /\ SetFiles(existingPaths)
    /\ UNCHANGED <<routeProjectId, pdfUrl, pdfStorage, compiles>>

\* A click on the Compile button, which is disabled while a compile is
\* awaited: handleCompile up to its await.
CompileClick ==
    /\ compiles = {}
    /\ compiles' = {[project |-> routeProjectId]}
    /\ UNCHANGED <<svars, routeProjectId, pdfUrl, pdfStorage>>

\* handleCompile after its await: setCompileResult with the projectId read
\* before the await; a failed compile, or a rejected call, has no location.
CompileResponse(call, success) ==
    LET newPdfUrl == IF success THEN PdfUrlOf(call.project) ELSE null IN
    /\ call \in compiles
    /\ compiles' = compiles \ {call}
    /\ pdfStorage' = savePdfUrl(pdfStorage, call.project, newPdfUrl)
    /\ pdfUrl' = newPdfUrl
    /\ UNCHANGED <<svars, routeProjectId>>

\* The page is loaded anew at the same route: the stores are created again,
\* localStorage stays.
Reload ==
    /\ Restart
    /\ fileContents' = <<>>
    /\ isSaving' = FALSE
    /\ saves' = EmptyBag
    /\ fileContentData' = [p \in Paths |-> undefined]
    /\ pdfUrl' = null
    /\ compiles' = {}
    /\ UNCHANGED <<routeProjectId, pdfStorage>>

\* The frame of the steps of the route.
RouteFrame ==
    UNCHANGED <<vars, kvars, avars, lastS, persisted, fileContentData, remote,
                listings, commentsData, created>>

NextNavigate ==
    \/ \E project \in Projects :
           /\ Navigate(project) /\ DidQ("navigate", project)
           /\ UNCHANGED <<lastS, persisted>> /\ RouteFrame
    \/ /\ ProjectResponse /\ DidQ("setCurrentProject", routeProjectId)
       /\ RouteFrame
    \/ \E existingPaths \in SUBSET Paths :
           /\ FilesResponse(existingPaths) /\ DidQ("setFiles", routeProjectId)
           /\ RouteFrame
    \/ /\ CompileClick /\ DidQ("compile", routeProjectId)
       /\ RouteFrame
    \/ \E call \in compiles, success \in BOOLEAN :
           /\ CompileResponse(call, success)
           /\ DidQ(IF success THEN "compiled" ELSE "compileFailed", call.project)
           /\ RouteFrame
    \/ /\ Reload /\ DidQ("reload", null)
       /\ UNCHANGED <<last, synced, kvars, avars, lastS, persisted, remote,
                      listings, commentsData, created>>

\* Two projects visited in turn, their answers arriving in any order, and
\* compiled.
SpecNavigate == InitOpened /\ [][NextNavigate]_<<svars, qvars>>

(* ---------------------- the comments panel: steps ----------------------- *)

\* The stores when the Editor shows main.tex of project P, refs.bib open
\* beside it, and both files, of one line "a", are loaded and cached.
InitPanel ==
    /\ fileContents = setFileContent(setFileContent(<<>>, "main.tex", Text(1), TRUE),
                                     "refs.bib", Text(1), TRUE)
    /\ isSaving = FALSE
    /\ saves = EmptyBag
    /\ last = [op |-> "load", path |-> "refs.bib", content |-> Text(1),
               before |-> undefined]
    /\ synced = [p \in Paths |-> {Text(1)}]
    /\ currentProject = "P"
    /\ files = Paths
    /\ openFiles = <<"main.tex", "refs.bib">>
    /\ activeFile = "main.tex"
    /\ storage = saveState(<<>>, "P", <<"main.tex", "refs.bib">>, "main.tex")
    /\ thrown = FALSE
    /\ lastS = [op |-> "setActiveFile", arg |-> "main.tex", project |-> "P",
                openFiles |-> <<"main.tex", "refs.bib">>, activeFile |-> "refs.bib"]
    /\ persisted = [project \in {"P"} |->
                       Record(<<"main.tex", "refs.bib">>, "main.tex")]
    /\ ShortcutInit
    /\ doc = <<1>>
    /\ comments = <<>>
    /\ highlights = {}
    /\ effectError = FALSE
    /\ pendingSelection = nullSelection
    /\ isAddingComment = FALSE
    /\ creating = {}
    /\ lastA = [op |-> "init", oldStart |-> 0, oldEnd |-> 0, newLineCount |-> 0]
    /\ orphaned = [ids |-> {}, edited |-> FALSE]
    /\ selLines = 0
    /\ routeProjectId = "P"
    /\ fileContentData = [p \in Paths |-> Text(1)]
    /\ pdfUrl = null
    /\ pdfStorage = <<>>
    /\ compiles = {}
    /\ remote = {}
    /\ listings = {}
    /\ commentsData = {}
    /\ created = {}
    /\ lastQ = [op |-> "init", arg |-> null]

\* The comments of a set, in the order of their ids, as the client reads
\* them.
RECURSIVE ListOf(_, _)
ListOf(stored, ids) ==
    IF ids = <<>> THEN <<>>
    ELSE (IF \E c \in stored : c.id = Head(ids)
          THEN LET c == CHOOSE x \in stored : x.id = Head(ids)
               IN  <<Comment(c.id, c.line_start, c.line_end, c.resolved)>>
          ELSE <<>>) \o ListOf(stored, Tail(ids))

\* What commentsApi.listFile(projectId, path) returns: the comments of the
\* remote store whose file_path is path.
ListFile(path) == ListOf({c \in remote : c.file_path = path}, <<"c1", "c2">>)

\* The remote store handles a listFile call of the query of the active file
\* (made when the file is shown, after an invalidation and on window
\* focus); a fetch under way for the same key is replaced.
ListAnswer ==
    /\ activeFile # null
    /\ listings' = {l \in listings : l.path # activeFile}
                       \cup {[path |-> activeFile, comments |-> ListFile(activeFile)]}
    /\ UNCHANGED <<doc, comments, highlights, effectError, pendingSelection,
                   isAddingComment, creating, remote, commentsData, created>>

\* The answer reaches the query cache; when it is the answer of the query
\* of the active file and differs from the data held for it, commentsData
\* changes and the panel's effect calls setComments.
ListDelivered(l) ==
    /\ l \in listings
    /\ listings' = listings \ {l}
    /\ commentsData' = {d \in commentsData : d.path # l.path} \cup {l}
    /\ IF l.path = activeFile /\ l \notin commentsData
       THEN /\ comments' = l.comments
            /\ HighlightEffect(comments')
       ELSE UNCHANGED <<comments, highlights, effectError>>
    /\ UNCHANGED <<doc, pendingSelection, isAddingComment, creating, remote,
                   created>>

\* A click on the tab of another open file: setActiveFile(path); the Editor
\* makes a new view of the content it renders for path,
\* getFileContent(filePath) ?? fileContentData?.content ?? "", with no mark,
\* and the panel's
\* query takes the key of path: when the cache holds a list for it, the
\* effect calls setComments with it, and else comments stay.
PanelSwitch(path) ==
    LET held == {d \in commentsData : d.path = path}
        cs == IF held = {} THEN comments ELSE (CHOOSE d \in held : TRUE).comments
        content == IF getFileContent(fileContents, path) # undefined
                   THEN getFileContent(fileContents, path)
                   ELSE IF fileContentData[path] # undefined
                   THEN fileContentData[path]
                   ELSE EmptyText
    IN  /\ path # activeFile
        /\ SwitchFile(path)
        /\ doc' = CHOOSE d \in UNION {[1..k -> LineLengths] : k \in 1..MaxLines} :
                       toString(d) = content
        /\ comments' = cs
        /\ highlights' = IF held = {} \/ EffectThrows(doc', cs) THEN {}
                         ELSE HighlightList(doc', cs)
        /\ effectError' = IF held = {} THEN effectError ELSE EffectThrows(doc', cs)
        /\ UNCHANGED <<pendingSelection, isAddingComment, creating, remote,
                       listings, commentsData, created>>

\* The Add button with an active file: the create call is made for the file
\* active now.
PanelSubmit ==
    /\ activeFile # null
    /\ HandleSubmitComment
    /\ created' = created \cup {[path |-> activeFile, request |-> pendingSelection,
                                 id |-> null]}
    /\ UNCHANGED <<remote, listings, commentsData>>

\* The remote store handles a create call: it stores the comment, unresolved,
\* under the next id not in use.
RemoteCreate(call) ==
    LET id == IF \A c \in remote : c.id # "c1" THEN "c1" ELSE "c2" IN
    /\ call \in created
    /\ call.id = null
    /\ \A c \in remote : c.id # id
    /\ remote' = remote \cup {[id |-> id, file_path |-> call.path,
                               line_start |-> call.request.lineStart,
                               line_end |-> call.request.lineEnd,
                               resolved |-> FALSE]}
    /\ created' = (created \ {call}) \cup {[call EXCEPT !.id = id]}
    /\ UNCHANGED <<doc, comments, highlights, effectError, pendingSelection,
                   isAddingComment, creating, listings, commentsData>>

\* The answer of a create call arrives: onSuccess of createMutation, which
\* is addComment(comment), setAddingComment(false),
\* setPendingSelection(null) and invalidateQueries: the query of the active
\* file is fetched again and the fetch under way for it is cancelled.
CreateResponse(call) ==
    /\ call \in created
    /\ call.id # null
    /\ created' = created \ {call}
    /\ creating' = creating \ {call.request}
    /\ comments' = <<Comment(call.id, call.request.lineStart,
                             call.request.lineEnd, FALSE)>> \o comments
    /\ HighlightEffect(comments')
    /\ isAddingComment' = FALSE
    /\ pendingSelection' = nullSelection
    /\ listings' = {l \in listings : l.path # activeFile}
    /\ UNCHANGED <<doc, remote, commentsData>>

\* The Resolve button of a comment shown: the remote store marks it, and
\* onSuccess of resolveMutation is updateComment and invalidateQueries.
ResolveComment(id) ==
    /\ \E i \in 1..Len(comments) : comments[i].id = id /\ ~comments[i].resolved
    /\ remote' = {IF c.id = id THEN [c EXCEPT !.resolved = TRUE] ELSE c : c \in remote}
    /\ ResolveSuccess(id)
    /\ listings' = {l \in listings : l.path # activeFile}
    /\ UNCHANGED <<commentsData, created>>

\* The frame of the steps of the panel.
PanelFrame ==
    UNCHANGED <<last, synced, kvars, lastA, orphaned, selLines, lastS, persisted,
                routeProjectId, pdfUrl, pdfStorage, compiles, lastQ>>

NextPanel ==
    \/ \E path \in Paths :
           /\ PanelSwitch(path)
           /\ PanelFrame
    \/ /\ ListAnswer
       /\ UNCHANGED <<fileContents, isSaving, saves, fileContentData>>
       /\ UNCHANGED <<currentProject, files, openFiles, activeFile, storage, thrown>>
       /\ PanelFrame
    \/ \E l \in listings :
           /\ ListDelivered(l)
           /\ UNCHANGED <<fileContents, isSaving, saves, fileContentData>>
           /\ UNCHANGED <<currentProject, files, openFiles, activeFile, storage, thrown>>
       /\ PanelFrame
    \/ \E anchor \in 0..DocLength(doc), head \in 0..DocLength(doc) :
           /\ HandleAddComment(anchor, head)
           /\ UNCHANGED <<fileContentData, remote, listings, commentsData, created>>
           /\ UNCHANGED <<currentProject, files, openFiles, activeFile, storage, thrown>>
       /\ PanelFrame
    \/ /\ PanelSubmit
       /\ UNCHANGED fileContentData
       /\ UNCHANGED <<currentProject, files, openFiles, activeFile, storage, thrown>>
       /\ PanelFrame
    \/ \E call \in created :
           /\ RemoteCreate(call)
           /\ UNCHANGED <<fileContents, isSaving, saves, fileContentData>>
           /\ UNCHANGED <<currentProject, files, openFiles, activeFile, storage, thrown>>
       /\ PanelFrame
    \/ \E call \in created :
           /\ CreateResponse(call)
           /\ UNCHANGED <<fileContents, isSaving, saves, fileContentData>>
           /\ UNCHANGED <<currentProject, files, openFiles, activeFile, storage, thrown>>
       /\ PanelFrame
    \/ \E id \in CommentIds :
           /\ ResolveComment(id)
           /\ UNCHANGED fileContentData
           /\ UNCHANGED <<currentProject, files, openFiles, activeFile, storage, thrown>>
       /\ PanelFrame

\* Two files shown in turn, comments made on them, and the answers of the
\* remote store arriving in any order.
SpecPanel == InitPanel /\ [][NextPanel]_<<vars, svars, avars, qvars>>

(* --------------------------- claims C31 - C40 --------------------------- *)

\* C33: with a project current, after each of openFile, closeFile,
\* setActiveFile and setFiles the record read back from the text stored under
\* the project's key is the store's openFiles and activeFile.
C33_PersistOnMutation ==
    (/\ lastS.op \in {"openFile", "closeFile", "setActiveFile", "setFiles"}
     /\ currentProject # null)
        => getStoredState(storage, currentProject) = Record(openFiles, activeFile)

\* A tab of the current project has been closed and tabs remain.
C33_Witness ==
    /\ lastS.op = "closeFile"
    /\ currentProject # null
    /\ openFiles # lastS.openFiles
    /\ openFiles # <<>>
    /\ getStoredState(storage, currentProject) = Record(openFiles, activeFile)

\* C38: an edit of a path that had no buffer does not leave the path with a
\* clean buffer whose originalContent is the content typed.
C38_EditFabricatesNoBaseline ==
    (last.op = "edit" /\ last.before = undefined)
        => ~(/\ ~fileContents[last.path].isDirty
             /\ fileContents[last.path].originalContent = last.content)

\* C35: when a file with a dirty buffer is made the active file again after
\* another file was active, its buffer is as it was.
C35_SwitchKeepsUnsaved ==
    [][\A X \in Paths :
          (/\ activeFile # X
           /\ activeFile' = X
           /\ X \in DOMAIN fileContents
           /\ fileContents[X].isDirty)
              => /\ X \in DOMAIN fileContents'
                 /\ fileContents'[X] = fileContents[X]]_<<vars, svars, qvars>>

\* C36: the confirmation of a save of a file marks that file saved and
\* leaves the buffer of every other file, the active one too, as it was.
C36_ConfirmMarksSavedFileOnly ==
    [][lastQ'.op = "saveConfirm" =>
          /\ fileContents' = markFileSaved(fileContents, lastQ'.arg)
          /\ DOMAIN fileContents' = DOMAIN fileContents
          /\ \A p \in DOMAIN fileContents \ {lastQ'.arg} :
                 fileContents'[p] = fileContents[p]]_<<vars, svars, qvars>>

\* The save of a file has been confirmed while another file, with a dirty
\* buffer, was the active one.
C36_Witness ==
    /\ lastQ.op = "saveConfirm"
    /\ activeFile # null
    /\ activeFile # lastQ.arg
    /\ isFileDirty(fileContents, activeFile)
    /\ lastQ.arg \in DOMAIN fileContents
    /\ ~isFileDirty(fileContents, lastQ.arg)

\* C37: isSaving is TRUE exactly while a save call is awaited.
C37_SavingIffOutstanding == isSaving <=> saves # EmptyBag

\* C32: when the current project is switched or cleared no path keeps a
\* buffer, and when a file leaves the listing of the project its path keeps
\* none: getFileContent gives undefined for it and hasUnsavedChanges does
\* not count it.
C32_BufferLifetime ==
    [][/\ (/\ lastQ'.op = "setCurrentProject"
           /\ currentProject # null
           /\ currentProject' # currentProject)
              => /\ \A p \in Paths : getFileContent(fileContents', p) = undefined
                 /\ ~hasUnsavedChanges(fileContents')
       /\ (lastQ'.op = "setFiles" /\ currentProject # null)
              => \A p \in files \ files' :
                     /\ getFileContent(fileContents', p) = undefined
                     /\ p \notin DOMAIN fileContents']_<<vars, svars, qvars>>

\* C34: a file listing of the route's project delivered while another
\* project is still the current one leaves openFiles and activeFile, and
\* the text stored under the current project's key, as they were.
C34_ListingOfOtherProject ==
    [][(/\ lastQ'.op = "setFiles"
        /\ currentProject # null
        /\ routeProjectId # currentProject)
           => /\ openFiles' = openFiles
              /\ activeFile' = activeFile
              /\ getStoredState(storage', currentProject)
                     = getStoredState(storage, currentProject)]_<<svars, qvars>>

\* C40: after the project query of project Q answered (setCurrentProject,
\* restorePdfUrl), pdfUrl is the location stored for Q when there is one
\* and else is not the location of a compile of another project.
C40_PreviewOfCurrentProject ==
    lastQ.op = "setCurrentProject" =>
        IF getStoredPdfUrl(pdfStorage, lastQ.arg) # null
        THEN pdfUrl = getStoredPdfUrl(pdfStorage, lastQ.arg)
        ELSE \A project \in Projects \ {lastQ.arg} : pdfUrl # PdfUrlOf(project)

\* C31: every mark of the Editor belongs to an unresolved comment whose
\* file_path is the active file.
C31_HighlightsOfActiveFile ==
    \A mark \in highlights :
        \E c \in remote :
            /\ c.id = mark.id
            /\ ~c.resolved
            /\ c.file_path = activeFile

\* C39: the comments array holds one entry per comment id at most.
C39_CommentIdsUnique == Cardinality(Ids(comments)) = Len(comments)

====
